---- MODULE Spec2Model ----
(***************************************************************************)
(* Estimate lifecycle and inventory reservation of the spray-foam          *)
(* contractor application: the admin handlers of useEstimates.ts, the crew *)
(* completion and the payment snapshot of database.ts, and the sync paths  *)
(* of useSync.ts.                                                          *)
(*                                                                         *)
(* Quantities (foam sets, item quantities) are integers counting thirds of *)
(* 0.01: 3 is 0.01, 300 is 1.00.  A value that is a multiple of 3 has two  *)
(* decimals; the other values stand for the unrounded numbers the          *)
(* calculation engine and the crew form produce (4.3367 sets is 1301).     *)
(* Hours are counted the same way.  Prices and rates are whole dollars per *)
(* unit, and amounts of money are thirds of a cent (300 is $1.00), so that *)
(* a quantity times a price is an amount.                                   *)
(***************************************************************************)
EXTENDS Integers, Sequences, FiniteSets, TLC

VARIABLES
    role,               \* session.role of the signed-in user
    warehouse,          \* appData.warehouse: foam counters and items
    savedEstimates,     \* appData.savedEstimates
    editingEstimateId,  \* ui.editingEstimateId, 0 for null
    notification,       \* ui.notification.type, "none" when null
    lastSynced,         \* lastSyncedStateRef of useSync
    pendingSync,        \* the setTimeout(onSync) armed by a crew completion
    db,                 \* the remote store: companies row, warehouse_items, estimates, logs, P&L
    created,            \* number of estimate ids generated so far
    lastOp,             \* the handler that ran last, and the branch it took
    remoteCalls,        \* the remote writes the last handler issued
    completion,         \* what the last completeJobInSupabase was given and returned
    steps,              \* number of handler invocations so far
    devices,            \* the appData/ui of each browser signed in to one company
    inbox,              \* per browser, the postgres_changes events not yet received
    boot,               \* useSync's initializeApp: session, ui flags, local cache
    debounce,           \* useSync's auto-sync effect: syncTimerRef and the cached JSON
    inflight            \* the remote calls of this browser that were started and have not settled

vars == <<role, warehouse, savedEstimates, editingEstimateId, notification,
          lastSynced, pendingSync, db, created, lastOp, remoteCalls, completion,
          steps, devices, inbox, boot, debounce, inflight>>

\* ------------------------------------------------------------------------
\* Bounds and input domains
\* ------------------------------------------------------------------------

\* crypto.randomUUID() is called at most this many times
MaxEstimates == 1

\* a behaviour is followed for this many handler invocations
MaxSteps == 4

\* Number(x.toFixed(2)): the nearest multiple of 0.01
toFixed2(x) == 3 * ((x + 1) \div 3)

NoInventory == << >>

\* appData.inventory, the job's prep items: none, or one item the warehouse
\* stocks (an unrounded quantity) next to one it does not stock
JobInventories ==
    { NoInventory,
      << [name |-> "tape", quantity |-> 301, unitCost |-> 4],
         [name |-> "caulk", quantity |-> 600, unitCost |-> 6] >> }

\* CalculationResults: required open-cell and closed-cell sets and the price
\* quoted (no foam; 4.00 and 2.00 sets, more closed cell than is in stock;
\* 4.3367 sets)
CalcResults ==
    { [openCellSets |-> 0,    closedCellSets |-> 0,   totalCost |-> 0],
      [openCellSets |-> 1200, closedCellSets |-> 600, totalCost |-> 6000000],
      [openCellSets |-> 1301, closedCellSets |-> 0,   totalCost |-> 3600000] }

\* appData.costs: what a set of foam and an hour of labor cost the company
\* (the defaults of loadFullAppState)
Costs == [openCell |-> 2000, closedCell |-> 2600, laborRate |-> 85]

\* appData.expenses of the job being edited: 8.00 man hours at the default
\* labor rate, a $50.00 trip charge, a $20.00 fuel surcharge, $10.00 of other
\* expenses
JobExpenses == [manHours |-> 2400, laborRate |-> 0, tripCharge |-> 15000,
                fuelSurcharge |-> 6000, other |-> 3000]

CustomerNames == { "", "Acme" }

\* what the crew enters in the completion form
CrewActuals ==
    { [openCellSets |-> 1350, closedCellSets |-> 0, inventory |-> NoInventory,
       laborHours |-> 3000],
      [openCellSets |-> 1301, closedCellSets |-> 600,
       inventory |-> << [name |-> "tape", quantity |-> 600, unitCost |-> 4] >>,
       laborHours |-> 0] }

\* ------------------------------------------------------------------------
\* Records
\* ------------------------------------------------------------------------

NoReserved == [present |-> FALSE, openCellSets |-> 0, closedCellSets |-> 0,
               inventory |-> NoInventory]

NoActuals == [present |-> FALSE, openCellSets |-> 0, closedCellSets |-> 0,
              inventory |-> NoInventory, laborHours |-> 0]

NoFinancials == [present |-> FALSE, revenue |-> 0, chemicalCost |-> 0, laborCost |-> 0,
                 inventoryCost |-> 0, totalCOGS |-> 0, netProfit |-> 0,
                 margin |-> [numerator |-> 0, denominator |-> 1]]

NoEstimate == [id |-> 0, status |-> "none", executionStatus |-> "none",
               customerName |-> "",
               materials |-> [openCellSets |-> 0, closedCellSets |-> 0,
                              inventory |-> NoInventory, reserved |-> NoReserved],
               totalValue |-> 0, expenses |-> JobExpenses, invoiceNumber |-> "",
               actuals |-> NoActuals, financials |-> NoFinancials]

InitialWarehouse ==
    [openCellSets |-> 1800, closedCellSets |-> 300,
     items |-> << [name |-> "tape", quantity |-> 900] >>]

\* ------------------------------------------------------------------------
\* Array helpers
\* ------------------------------------------------------------------------

\* items.findIndex(i => i.name === name), 0 for -1
ItemIndex(items, name) ==
    IF \E i \in 1..Len(items) : items[i].name = name
    THEN CHOOSE i \in 1..Len(items) :
            /\ items[i].name = name
            /\ \A j \in 1..(i - 1) : items[j].name # name
    ELSE 0

\* savedEstimates.findIndex(e => e.id === id), 0 for -1
EstimateIndex(estimates, id) ==
    IF \E i \in 1..Len(estimates) : estimates[i].id = id
    THEN CHOOSE i \in 1..Len(estimates) :
            /\ estimates[i].id = id
            /\ \A j \in 1..(i - 1) : estimates[j].id # id
    ELSE 0

\* savedEstimates.find(e => e.id === id), NoEstimate for undefined
FindEstimate(estimates, id) ==
    IF EstimateIndex(estimates, id) = 0 THEN NoEstimate
    ELSE estimates[EstimateIndex(estimates, id)]

\* savedEstimates.filter(e => e.id !== id)
RECURSIVE WithoutEstimate(_, _)
WithoutEstimate(estimates, id) ==
    IF estimates = << >> THEN << >>
    ELSE IF Head(estimates).id = id THEN WithoutEstimate(Tail(estimates), id)
    ELSE << Head(estimates) >> \o WithoutEstimate(Tail(estimates), id)

ItemNames(inventory) == { inventory[i].name : i \in 1..Len(inventory) }

\* the quantity a diffMap accumulates for one name over one list
RECURSIVE SumQuantity(_, _)
SumQuantity(inventory, name) ==
    IF inventory = << >> THEN 0
    ELSE (IF Head(inventory).name = name THEN Head(inventory).quantity ELSE 0)
         + SumQuantity(Tail(inventory), name)

\* diffMap.get(name): quantities of `plus` count +1, those of `minus` count -1
DiffMap(plus, minus, name) == SumQuantity(plus, name) - SumQuantity(minus, name)

\* diffMap.forEach: every non-zero diff is added to the first warehouse item
\* of that name, the sum fixed to 2 decimals
ApplyDiffMap(items, plus, minus) ==
    [ i \in 1..Len(items) |->
        IF /\ ItemIndex(items, items[i].name) = i
           /\ DiffMap(plus, minus, items[i].name) # 0
        THEN [ items[i] EXCEPT
                 !.quantity = toFixed2(@ + DiffMap(plus, minus, items[i].name)) ]
        ELSE items[i] ]

\* whether diffMap.forEach touched a warehouse item
DiffMapHits(items, plus, minus) ==
    \E n \in ItemNames(plus) \cup ItemNames(minus) :
        DiffMap(plus, minus, n) # 0 /\ ItemIndex(items, n) > 0

\* inventory.forEach(item => ...) of handleDeleteEstimate: each listed item is
\* added back to the first warehouse item of its name
RECURSIVE ReturnItems(_, _)
ReturnItems(items, inventory) ==
    IF inventory = << >> THEN items
    ELSE LET idx == ItemIndex(items, Head(inventory).name)
             next == IF idx = 0 THEN items
                     ELSE [ items EXCEPT
                              ![idx].quantity = toFixed2(@ + Head(inventory).quantity) ]
         IN ReturnItems(next, Tail(inventory))

ReturnHits(items, inventory) ==
    \E n \in ItemNames(inventory) : ItemIndex(items, n) > 0

\* upsert(row, { onConflict: 'id' }) on the estimates table
UpsertRow(rows, record) ==
    IF EstimateIndex(rows, record.id) = 0 THEN Append(rows, record)
    ELSE [ rows EXCEPT ![EstimateIndex(rows, record.id)] = record ]

RECURSIVE UpsertRows(_, _)
UpsertRows(rows, records) ==
    IF records = << >> THEN rows
    ELSE UpsertRows(UpsertRow(rows, Head(records)), Tail(records))

\* ------------------------------------------------------------------------
\* saveEstimate, as a function of the appData the calling render captured
\* ------------------------------------------------------------------------

NoExtra == [hasMaterials |-> FALSE, materials |-> NoEstimate.materials]

\* app: the appData/ui of the render the handler closes over;
\* newId: the value crypto.randomUUID() returns if it is called.
\* Returns the payload of the UPDATE_DATA dispatch and the remote writes.
SaveEstimate(app, newId, name, inventory, results, targetStatus, extraData) ==
    LET estimateId == IF app.editingEstimateId # 0 THEN app.editingEstimateId ELSE newId
        existingRecord == FindEstimate(app.savedEstimates, estimateId)
        exists == existingRecord.id # 0
        newStatus == IF targetStatus # "" THEN targetStatus
                     ELSE IF exists THEN existingRecord.status ELSE "Draft"
        \* appData.invoiceNumber is empty unless the invoice form was filled in;
        \* `INV-${Math.floor(Math.random() * 100000)}` is written INV-n
        invoiceNumber == IF exists /\ existingRecord.invoiceNumber # ""
                         THEN existingRecord.invoiceNumber
                         ELSE IF newStatus = "Invoiced" THEN "INV-n" ELSE ""
        existingReserved == IF exists THEN existingRecord.materials.reserved ELSE NoReserved
        oldInventory == IF exists THEN existingRecord.materials.inventory ELSE NoInventory
        itemsUpdated == DiffMapHits(app.warehouse.items, oldInventory, inventory)
        newItems == ApplyDiffMap(app.warehouse.items, oldInventory, inventory)
        adjusts == /\ existingReserved.present
                   /\ existingRecord.status = "Work Order"
                   /\ existingRecord.executionStatus # "Completed"
                   /\ ~extraData.hasMaterials
        openDelta == existingReserved.openCellSets - results.openCellSets
        closedDelta == existingReserved.closedCellSets - results.closedCellSets
        foamStockChanged == adjusts /\ (openDelta # 0 \/ closedDelta # 0)
        updatedReserved ==
            IF foamStockChanged
            THEN [present |-> TRUE, openCellSets |-> results.openCellSets,
                  closedCellSets |-> results.closedCellSets, inventory |-> inventory]
            ELSE existingReserved
        newWarehouse ==
            [openCellSets |-> IF foamStockChanged
                              THEN toFixed2(app.warehouse.openCellSets + openDelta)
                              ELSE app.warehouse.openCellSets,
             closedCellSets |-> IF foamStockChanged
                                THEN toFixed2(app.warehouse.closedCellSets + closedDelta)
                                ELSE app.warehouse.closedCellSets,
             items |-> newItems]
        newEstimate ==
            [id |-> estimateId,
             status |-> newStatus,
             executionStatus |-> IF exists THEN existingRecord.executionStatus
                                 ELSE "Not Started",
             customerName |-> name,
             materials |-> IF extraData.hasMaterials THEN extraData.materials
                           ELSE [openCellSets |-> results.openCellSets,
                                 closedCellSets |-> results.closedCellSets,
                                 inventory |-> inventory,
                                 reserved |-> updatedReserved],
             totalValue |-> results.totalCost,
             expenses |-> JobExpenses,
             invoiceNumber |-> invoiceNumber,
             actuals |-> IF exists THEN existingRecord.actuals ELSE NoActuals,
             financials |-> IF exists THEN existingRecord.financials ELSE NoFinancials]
        idx == EstimateIndex(app.savedEstimates, estimateId)
        updatedEstimates == IF idx > 0 THEN [ app.savedEstimates EXCEPT ![idx] = newEstimate ]
                            ELSE << newEstimate >> \o app.savedEstimates
    IN  IF name = ""
        THEN [ok |-> FALSE, record |-> NoEstimate, usedNewId |-> FALSE,
              savedEstimates |-> app.savedEstimates, warehouseUpdated |-> FALSE,
              foamStockChanged |-> FALSE, newWarehouse |-> app.warehouse]
        ELSE [ok |-> TRUE, record |-> newEstimate, usedNewId |-> (app.editingEstimateId = 0),
              savedEstimates |-> updatedEstimates,
              warehouseUpdated |-> (itemsUpdated \/ foamStockChanged),
              foamStockChanged |-> foamStockChanged, newWarehouse |-> newWarehouse]

\* the appData and ui a handler invoked now closes over
App == [warehouse |-> warehouse, savedEstimates |-> savedEstimates,
        editingEstimateId |-> editingEstimateId]

\* the remote writes of saveEstimate's "Persist to Supabase" block, applied to store
PersistSave(store, saved) ==
    [ store EXCEPT
        !.estimates = UpsertRow(@, saved.record),
        !.items = IF saved.warehouseUpdated THEN saved.newWarehouse.items ELSE @,
        !.openCellSets = IF saved.foamStockChanged
                         THEN saved.newWarehouse.openCellSets ELSE @,
        !.closedCellSets = IF saved.foamStockChanged
                           THEN saved.newWarehouse.closedCellSets ELSE @ ]

SaveCalls(saved) ==
    { "upsertEstimate" }
    \cup (IF saved.warehouseUpdated THEN { "syncWarehouseItems" } ELSE {})
    \cup (IF saved.foamStockChanged THEN { "updateFoamStock" } ELSE {})


\* ------------------------------------------------------------------------
\* Remote store
\* ------------------------------------------------------------------------

\* saveFullAppState: company settings (with the foam counters), warehouse
\* items and every estimate of the pushing device are written over the store
SaveFullAppState(store, appWarehouse, appEstimates) ==
    [ store EXCEPT
        !.openCellSets = appWarehouse.openCellSets,
        !.closedCellSets = appWarehouse.closedCellSets,
        !.items = appWarehouse.items,
        !.estimates = UpsertRows(@, appEstimates) ]

\* JSON.stringify(appData), as far as the modelled sections go
Serialized == [warehouse |-> warehouse, savedEstimates |-> savedEstimates]

\* ------------------------------------------------------------------------
\* Initial state: a signed-in admin, initialised from the store
\* ------------------------------------------------------------------------

\* a Work Order sold before reservations were tracked: no materials.reserved
LegacyWorkOrder ==
    [id |-> 1, status |-> "Work Order", executionStatus |-> "Not Started",
     customerName |-> "Acme",
     materials |-> [openCellSets |-> 1200, closedCellSets |-> 0,
                    inventory |-> << [name |-> "tape", quantity |-> 300, unitCost |-> 4] >>,
                    reserved |-> NoReserved],
     totalValue |-> 6000000, expenses |-> JobExpenses, invoiceNumber |-> "",
     actuals |-> NoActuals, financials |-> NoFinancials]

\* the estimates the store holds when the app starts
StoredEstimates == { << >>, << LegacyWorkOrder >> }

\* the auto-sync effect after a run that found appData equal to what was last
\* synced: the JSON is in localStorage, no timer is armed
Settled(appData) == [armed |-> FALSE, elapsed |-> 0, data |-> appData, cache |-> appData]

\* ui and session once initializeApp has finished with the data of the store
Booted == [pc |-> "done", session |-> "admin", isLoading |-> FALSE,
           isInitialized |-> TRUE, outcome |-> "data", cache |-> << >>]

Init ==
    /\ role = "admin"
    /\ warehouse = InitialWarehouse
    /\ savedEstimates \in StoredEstimates
    /\ editingEstimateId = 0
    /\ notification = "none"
    /\ lastSynced = [warehouse |-> InitialWarehouse, savedEstimates |-> savedEstimates]
    /\ pendingSync = FALSE
    /\ db = [openCellSets |-> InitialWarehouse.openCellSets,
             closedCellSets |-> InitialWarehouse.closedCellSets,
             items |-> InitialWarehouse.items,
             estimates |-> savedEstimates,
             materialLogs |-> {},
             profitLoss |-> << >>]
    /\ created = Len(savedEstimates)
    /\ lastOp = "init"
    /\ remoteCalls = {}
    /\ completion = [ran |-> FALSE]
    /\ steps = 0
    /\ devices = << >>
    /\ inbox = << >>
    /\ boot = Booted
    /\ debounce = Settled([warehouse |-> warehouse, savedEstimates |-> savedEstimates])
    /\ inflight = << >>

\* every handler invocation counts as one step of the behaviour; the handlers
\* of this browser leave the other browsers of the company alone
Tick == steps < MaxSteps /\ steps' = steps + 1 /\ UNCHANGED <<devices, inbox, boot, debounce, inflight>>

\* ------------------------------------------------------------------------
\* Admin handlers (useEstimates.ts)
\* ------------------------------------------------------------------------

loadEstimateForEditing(id) ==
    /\ Tick
    /\ role = "admin"
    /\ EstimateIndex(savedEstimates, id) > 0
    /\ editingEstimateId # id
    /\ editingEstimateId' = id
    /\ lastOp' = "loadEstimateForEditing"
    /\ remoteCalls' = {}
    /\ UNCHANGED <<role, warehouse, savedEstimates, notification, lastSynced,
                   pendingSync, db, created, completion>>

saveEstimate(name, inventory, results, targetStatus) ==
    /\ Tick
    /\ role = "admin"
    /\ (editingEstimateId = 0 /\ name # "") => created < MaxEstimates
    /\ \E saved \in { SaveEstimate(App, created + 1, name, inventory, results,
                                   targetStatus, NoExtra) } :
          /\ savedEstimates' = saved.savedEstimates
          /\ warehouse' = IF saved.warehouseUpdated THEN saved.newWarehouse ELSE warehouse
          /\ editingEstimateId' = IF saved.ok THEN saved.record.id ELSE editingEstimateId
          /\ notification' = IF saved.ok THEN "success" ELSE "error"
          /\ db' = IF saved.ok THEN PersistSave(db, saved) ELSE db
          /\ created' = IF saved.usedNewId THEN created + 1 ELSE created
          /\ lastOp' = IF saved.ok THEN "saveEstimate" ELSE "saveEstimate:rejected"
          /\ remoteCalls' = IF saved.ok THEN SaveCalls(saved) ELSE {}
    /\ UNCHANGED <<role, lastSynced, pendingSync, completion>>

\* the record confirmWorkOrder looks up, and its isAlreadySold test
ExistingRecord == IF editingEstimateId # 0
                  THEN FindEstimate(savedEstimates, editingEstimateId)
                  ELSE NoEstimate

isAlreadySold == /\ ExistingRecord.id # 0
                 /\ ExistingRecord.status \in { "Work Order", "Invoiced", "Paid" }

\* warnings.length > 0
Shortage(results) == \/ results.openCellSets > warehouse.openCellSets
                     \/ results.closedCellSets > warehouse.closedCellSets

\* "2. Deduct Inventory (allow negatives)"
Deducted(results) ==
    [ warehouse EXCEPT
        !.openCellSets = toFixed2(@ - results.openCellSets),
        !.closedCellSets = toFixed2(@ - results.closedCellSets) ]

\* "3. Pass materials + reservation"
ReservationExtra(inventory, results) ==
    [hasMaterials |-> TRUE,
     materials |-> [openCellSets |-> results.openCellSets,
                    closedCellSets |-> results.closedCellSets,
                    inventory |-> inventory,
                    reserved |-> [present |-> TRUE,
                                  openCellSets |-> results.openCellSets,
                                  closedCellSets |-> results.closedCellSets,
                                  inventory |-> inventory]]]

confirmWorkOrder(name, inventory, results, proceed) ==
    /\ Tick
    /\ role = "admin"
    /\ (editingEstimateId = 0 /\ name # "") => created < MaxEstimates
    /\ (isAlreadySold \/ ~Shortage(results)) => proceed   \* no prompt, no answer
    /\ IF ~isAlreadySold /\ Shortage(results) /\ ~proceed
       THEN /\ lastOp' = "confirmWorkOrder:declined"
            /\ remoteCalls' = {}
            /\ UNCHANGED <<warehouse, savedEstimates, editingEstimateId, notification,
                           db, created>>
       ELSE \E sold \in { isAlreadySold } :
            \E afterDeduct \in { IF sold THEN warehouse ELSE Deducted(results) } :
            \E saved \in { SaveEstimate(App, created + 1, name, inventory, results,
                                        "Work Order",
                                        IF sold THEN NoExtra
                                        ELSE ReservationExtra(inventory, results)) } :
            \E persisted \in { IF saved.ok THEN PersistSave(db, saved) ELSE db } :
               /\ savedEstimates' = saved.savedEstimates
               /\ warehouse' = IF saved.warehouseUpdated THEN saved.newWarehouse
                               ELSE afterDeduct
               /\ editingEstimateId' = IF saved.ok THEN saved.record.id
                                       ELSE editingEstimateId
               /\ notification' = IF saved.ok THEN "success" ELSE "error"
               /\ db' = IF saved.ok /\ ~sold
                        THEN [ persisted EXCEPT
                                 !.openCellSets = afterDeduct.openCellSets,
                                 !.closedCellSets = afterDeduct.closedCellSets ]
                        ELSE persisted
               /\ created' = IF saved.usedNewId THEN created + 1 ELSE created
               /\ lastOp' = IF ~saved.ok THEN "confirmWorkOrder:rejected"
                            ELSE IF sold THEN "confirmWorkOrder:resold"
                            ELSE "confirmWorkOrder:reserved"
               /\ remoteCalls' = IF ~saved.ok THEN {}
                                 ELSE SaveCalls(saved)
                                      \cup (IF sold THEN {} ELSE { "updateFoamStock" })
    /\ UNCHANGED <<role, lastSynced, pendingSync, completion>>

\* handleDeleteEstimate always taking its backward-compatible branch: the prep
\* items of materials.inventory are returned, the reserved foam is not
ReleasedWarehouse_ItemsOnly(wh, estimate) ==
    LET isActiveWorkOrder == /\ estimate.status = "Work Order"
                             /\ estimate.executionStatus # "Completed"
        itemsReturned == isActiveWorkOrder /\ ReturnHits(wh.items, estimate.materials.inventory)
    IN [foamReturned |-> FALSE,
        warehouseUpdated |-> itemsReturned,
        newWarehouse |->
            [ wh EXCEPT !.items = IF isActiveWorkOrder
                                  THEN ReturnItems(wh.items, estimate.materials.inventory)
                                  ELSE @ ]]

\* the warehouse handleDeleteEstimate computes for the estimate it deletes
ReleasedWarehouse(wh, estimate) ==
    LET reserved == estimate.materials.reserved
        isActiveWorkOrder == /\ estimate.status = "Work Order"
                             /\ estimate.executionStatus # "Completed"
        foamReturned == /\ isActiveWorkOrder
                        /\ reserved.present
                        /\ (reserved.openCellSets > 0 \/ reserved.closedCellSets > 0)
        returned == IF reserved.present THEN reserved.inventory
                    ELSE estimate.materials.inventory
        itemsReturned == isActiveWorkOrder /\ ReturnHits(wh.items, returned)
    IN [foamReturned |-> foamReturned,
        warehouseUpdated |-> (foamReturned \/ itemsReturned),
        newWarehouse |->
            [openCellSets |-> IF foamReturned
                              THEN toFixed2(wh.openCellSets + reserved.openCellSets)
                              ELSE wh.openCellSets,
             closedCellSets |-> IF foamReturned
                                THEN toFixed2(wh.closedCellSets + reserved.closedCellSets)
                                ELSE wh.closedCellSets,
             items |-> IF isActiveWorkOrder THEN ReturnItems(wh.items, returned)
                       ELSE wh.items]]

handleDeleteEstimate(id, confirmed) ==
    /\ Tick
    /\ role = "admin"
    /\ EstimateIndex(savedEstimates, id) > 0
    /\ IF ~confirmed
       THEN /\ lastOp' = "handleDeleteEstimate:cancelled"
            /\ remoteCalls' = {}
            /\ UNCHANGED <<warehouse, savedEstimates, editingEstimateId, notification, db>>
       ELSE \E released \in { ReleasedWarehouse(warehouse,
                                                  FindEstimate(savedEstimates, id)) } :
               /\ savedEstimates' = WithoutEstimate(savedEstimates, id)
               /\ warehouse' = IF released.warehouseUpdated THEN released.newWarehouse
                               ELSE warehouse
               /\ editingEstimateId' = IF editingEstimateId = id THEN 0
                                       ELSE editingEstimateId
               /\ db' = [ db EXCEPT
                            !.openCellSets = IF released.foamReturned
                                             THEN released.newWarehouse.openCellSets ELSE @,
                            !.closedCellSets = IF released.foamReturned
                                               THEN released.newWarehouse.closedCellSets
                                               ELSE @,
                            !.items = IF released.warehouseUpdated
                                      THEN released.newWarehouse.items ELSE @,
                            !.estimates = WithoutEstimate(@, id) ]
               /\ notification' = "success"
               /\ lastOp' = IF released.warehouseUpdated THEN "handleDeleteEstimate:released"
                            ELSE "handleDeleteEstimate:deleted"
               /\ remoteCalls' = { "deleteEstimateById" }
                     \cup (IF released.foamReturned THEN { "updateFoamStock" } ELSE {})
                     \cup (IF released.warehouseUpdated THEN { "syncWarehouseItems" } ELSE {})
    /\ UNCHANGED <<role, lastSynced, pendingSync, created, completion>>

\* (sum, item) => sum + quantity * unitCost over an inventory list
RECURSIVE InventoryCost(_)
InventoryCost(inventory) ==
    IF inventory = << >> THEN 0
    ELSE Head(inventory).quantity * Head(inventory).unitCost
         + InventoryCost(Tail(inventory))

\* the snapshot with netProfit / revenue computed whatever the revenue
FinancialSnapshot_Unguarded(estimate, costs) ==
    LET revenue == estimate.totalValue
        chemCost == estimate.materials.openCellSets * costs.openCell
                    + estimate.materials.closedCellSets * costs.closedCell
        laborCost == estimate.expenses.manHours
                     * (IF estimate.expenses.laborRate # 0 THEN estimate.expenses.laborRate
                        ELSE costs.laborRate)
        inventoryCost == InventoryCost(estimate.materials.inventory)
        miscCost == estimate.expenses.tripCharge + estimate.expenses.fuelSurcharge
                    + estimate.expenses.other
        totalCOGS == chemCost + laborCost + inventoryCost + miscCost
        netProfit == revenue - totalCOGS
    IN [present |-> TRUE, revenue |-> revenue, chemicalCost |-> chemCost,
        laborCost |-> laborCost, inventoryCost |-> inventoryCost,
        totalCOGS |-> totalCOGS, netProfit |-> netProfit,
        margin |-> [numerator |-> netProfit, denominator |-> revenue]]

\* "Calculate P&L" of markEstimatePaid: the financials snapshot
FinancialSnapshot(estimate, costs) ==
    LET revenue == estimate.totalValue
        chemCost == estimate.materials.openCellSets * costs.openCell
                    + estimate.materials.closedCellSets * costs.closedCell
        laborCost == estimate.expenses.manHours
                     * (IF estimate.expenses.laborRate # 0 THEN estimate.expenses.laborRate
                        ELSE costs.laborRate)
        inventoryCost == InventoryCost(estimate.materials.inventory)
        miscCost == estimate.expenses.tripCharge + estimate.expenses.fuelSurcharge
                    + estimate.expenses.other
        totalCOGS == chemCost + laborCost + inventoryCost + miscCost
        netProfit == revenue - totalCOGS
    IN [present |-> TRUE, revenue |-> revenue, chemicalCost |-> chemCost,
        laborCost |-> laborCost, inventoryCost |-> inventoryCost,
        totalCOGS |-> totalCOGS, netProfit |-> netProfit,
        margin |-> IF revenue > 0
                   THEN [numerator |-> netProfit, denominator |-> revenue]
                   ELSE [numerator |-> 0, denominator |-> 1]]

\* markEstimatePaid: the P&L row it inserts, the estimates row it updates and
\* the record it returns (the updated row, or the local record marked Paid
\* when the store has no such row)
MarkEstimatePaid(store, estimate, costs) ==
    LET financials == FinancialSnapshot(estimate, costs)
        idx == EstimateIndex(store.estimates, estimate.id)
        rows == IF idx = 0 THEN store.estimates
                ELSE [ store.estimates EXCEPT ![idx].status = "Paid",
                                              ![idx].financials = financials ]
    IN [store |-> [ store EXCEPT
                      !.profitLoss = Append(@, [estimate_id |-> estimate.id,
                                                total_cogs |-> toFixed2(financials.totalCOGS),
                                                net_profit |-> toFixed2(financials.netProfit)]),
                      !.estimates = rows ],
        paidRecord |-> IF idx = 0
                       THEN [ estimate EXCEPT !.status = "Paid", !.financials = financials ]
                       ELSE rows[idx]]

handleMarkPaid(id) ==
    /\ Tick
    /\ role = "admin"
    /\ EstimateIndex(savedEstimates, id) > 0
    /\ \E paid \in { MarkEstimatePaid(db, FindEstimate(savedEstimates, id), Costs) } :
          /\ db' = paid.store
          /\ savedEstimates' =
                [ savedEstimates EXCEPT ![EstimateIndex(savedEstimates, id)] = paid.paidRecord ]
    /\ notification' = "success"
    /\ lastOp' = "handleMarkPaid"
    /\ remoteCalls' = { "insertProfitLoss", "updateEstimate" }
    /\ UNCHANGED <<role, warehouse, editingEstimateId, lastSynced, pendingSync, created,
                   completion>>

\* ------------------------------------------------------------------------
\* Crew completion (database.ts, CrewDashboard)
\* ------------------------------------------------------------------------

\* where a remote call of completeJobInSupabase fails: it resolves with an
\* error, or the awaited call rejects
Failures == { "none", "estimate:error", "estimate:throw", "foam:error", "foam:throw",
              "logs:error", "logs:throw", "items:error" }

\* "4. Log material usage": one row per positive actual quantity
UsageLogs(estimateId, actuals) ==
    (IF actuals.openCellSets > 0
     THEN { [estimate_id |-> estimateId, material_name |-> "Open Cell Sets",
             quantity |-> actuals.openCellSets] } ELSE {})
    \cup
    (IF actuals.closedCellSets > 0
     THEN { [estimate_id |-> estimateId, material_name |-> "Closed Cell Sets",
             quantity |-> actuals.closedCellSets] } ELSE {})
    \cup
    { [estimate_id |-> estimateId, material_name |-> actuals.inventory[i].name,
       quantity |-> actuals.inventory[i].quantity] :
         i \in { j \in 1..Len(actuals.inventory) : actuals.inventory[j].quantity > 0 } }

\* A completion that subtracts the actual usage from the counter without
\* crediting the reservation back first.
ReconciledFoam_NoBaseline(actuals, estimatedMaterials, currentWarehouse) ==
    [openCellSets |-> toFixed2(currentWarehouse.openCellSets - actuals.openCellSets),
     closedCellSets |-> toFixed2(currentWarehouse.closedCellSets - actuals.closedCellSets)]

\* "2. Compute inventory delta": the foam counters written to the store
ReconciledFoam(actuals, estimatedMaterials, currentWarehouse) ==
    LET baseline == IF estimatedMaterials.reserved.present
                    THEN estimatedMaterials.reserved ELSE estimatedMaterials
        ocDelta == baseline.openCellSets - actuals.openCellSets
        ccDelta == baseline.closedCellSets - actuals.closedCellSets
    IN [openCellSets |-> toFixed2(currentWarehouse.openCellSets + ocDelta),
        closedCellSets |-> toFixed2(currentWarehouse.closedCellSets + ccDelta)]

\* "3. Inventory item delta"
\* the reconciliation without the baseline: only the actual usage is deducted
ReconciledItems_ActualsOnly(actuals, estimatedMaterials, currentWarehouse) ==
    ApplyDiffMap(currentWarehouse.items, NoInventory, actuals.inventory)

ReconciledItems(actuals, estimatedMaterials, currentWarehouse) ==
    LET estimatedInv == IF estimatedMaterials.reserved.present
                        THEN estimatedMaterials.reserved.inventory
                        ELSE estimatedMaterials.inventory
    IN ApplyDiffMap(currentWarehouse.items, estimatedInv, actuals.inventory)

\* update({execution_status: 'Completed', actuals}).eq('id', estimateId)
\* an estimate update that also advances the commercial status
MarkCompleted_Invoiced(rows, estimateId, actuals) ==
    [ i \in 1..Len(rows) |->
        IF rows[i].id = estimateId
        THEN [ rows[i] EXCEPT !.executionStatus = "Completed",
                              !.status = "Invoiced",
                              !.actuals = [present |-> TRUE,
                                           openCellSets |-> actuals.openCellSets,
                                           closedCellSets |-> actuals.closedCellSets,
                                           inventory |-> actuals.inventory,
                                           laborHours |-> actuals.laborHours] ]
        ELSE rows[i] ]

MarkCompleted(rows, estimateId, actuals) ==
    [ i \in 1..Len(rows) |->
        IF rows[i].id = estimateId
        THEN [ rows[i] EXCEPT !.executionStatus = "Completed",
                              !.actuals = [present |-> TRUE,
                                           openCellSets |-> actuals.openCellSets,
                                           closedCellSets |-> actuals.closedCellSets,
                                           inventory |-> actuals.inventory,
                                           laborHours |-> actuals.laborHours] ]
        ELSE rows[i] ]

\* completeJobInSupabase: the result it returns, the store it leaves and the
\* remote calls it issued, for each place a remote call can fail
CompleteJobInSupabase(store, estimateId, actuals, estimatedMaterials, currentWarehouse, failure) ==
    LET failResult == [success |-> FALSE, updatedWarehouse |-> currentWarehouse]
        foam == ReconciledFoam(actuals, estimatedMaterials, currentWarehouse)
        updatedItems == ReconciledItems(actuals, estimatedMaterials, currentWarehouse)
        logs == UsageLogs(estimateId, actuals)
        store1 == [ store EXCEPT !.estimates = MarkCompleted(@, estimateId, actuals) ]
        store2 == IF failure \in { "foam:error", "foam:throw" } THEN store1
                  ELSE [ store1 EXCEPT !.openCellSets = foam.openCellSets,
                                       !.closedCellSets = foam.closedCellSets ]
        store3 == IF failure \in { "logs:error", "logs:throw" } THEN store2
                  ELSE [ store2 EXCEPT !.materialLogs = @ \cup logs ]
        store4 == IF failure = "items:error" THEN store3
                  ELSE [ store3 EXCEPT !.items = updatedItems ]
        okResult == [success |-> TRUE,
                     updatedWarehouse |-> [openCellSets |-> foam.openCellSets,
                                           closedCellSets |-> foam.closedCellSets,
                                           items |-> updatedItems]]
        logCall == IF logs # {} THEN { "insertMaterialLogs" } ELSE {}
    IN  CASE failure \in { "estimate:error", "estimate:throw" } ->
               [result |-> failResult, store |-> store, calls |-> { "updateEstimate" }]
          [] failure = "foam:throw" ->
               [result |-> failResult, store |-> store1,
                calls |-> { "updateEstimate", "updateFoamStock" }]
          [] failure = "logs:throw" /\ logs # {} ->
               [result |-> failResult, store |-> store2,
                calls |-> { "updateEstimate", "updateFoamStock", "insertMaterialLogs" }]
          [] OTHER ->
               [result |-> okResult, store |-> store4,
                calls |-> { "updateEstimate", "updateFoamStock", "syncWarehouseItems" }
                          \cup logCall]

\* the jobs the crew dashboard lists
IsOpenWorkOrder(e) == e.status = "Work Order" /\ e.executionStatus # "Completed"

handleCompleteJobSubmit(id, actuals, failure) ==
    /\ Tick
    /\ role = "crew"
    /\ EstimateIndex(savedEstimates, id) > 0
    /\ IsOpenWorkOrder(FindEstimate(savedEstimates, id))
    /\ \E selectedJob \in { FindEstimate(savedEstimates, id) } :
       \E done \in { CompleteJobInSupabase(db, id, actuals, selectedJob.materials,
                                           warehouse, failure) } :
          /\ db' = done.store
          /\ pendingSync' = (pendingSync \/ done.result.success)
          /\ remoteCalls' = done.calls
          /\ completion' = [ran |-> TRUE, id |-> id, failure |-> failure,
                            actuals |-> actuals, result |-> done.result]
    /\ lastOp' = "handleCompleteJobSubmit"
    /\ UNCHANGED <<role, warehouse, savedEstimates, editingEstimateId, notification,
                   lastSynced, created>>

\* ------------------------------------------------------------------------
\* Sync (useSync.ts)
\* ------------------------------------------------------------------------

\* a sign-in followed by initializeApp with a successful pull
Login(r) ==
    /\ Tick
    /\ role' = r
    /\ warehouse' = [openCellSets |-> db.openCellSets,
                     closedCellSets |-> db.closedCellSets,
                     items |-> db.items]
    /\ savedEstimates' = db.estimates
    /\ lastSynced' = [warehouse |-> warehouse', savedEstimates |-> savedEstimates']
    /\ editingEstimateId' = 0
    /\ notification' = "none"
    /\ pendingSync' = FALSE
    /\ lastOp' = "login"
    /\ remoteCalls' = {}
    /\ UNCHANGED <<db, created, completion>>

\* "3. AUTO-SYNC": the debounce timer fires with the state unchanged since
AutoSync ==
    /\ Tick
    /\ role # "crew"
    /\ Serialized # lastSynced
    /\ db' = SaveFullAppState(db, warehouse, savedEstimates)
    /\ lastSynced' = Serialized
    /\ lastOp' = "autoSync"
    /\ remoteCalls' = { "saveFullAppState" }
    /\ UNCHANGED <<role, warehouse, savedEstimates, editingEstimateId, notification,
                   pendingSync, created, completion>>

\* "4. MANUAL FORCE SYNC"
ManualSync(op) ==
    /\ db' = SaveFullAppState(db, warehouse, savedEstimates)
    /\ lastSynced' = Serialized
    /\ notification' = "success"
    /\ lastOp' = op
    /\ remoteCalls' = { "saveFullAppState" }
    /\ UNCHANGED <<role, warehouse, savedEstimates, editingEstimateId, created, completion>>

\* the sync button of the admin screens, the crew's "Refresh List" button
handleManualSync ==
    /\ Tick
    /\ role = "crew" =>
          ~\E i \in 1..Len(savedEstimates) : IsOpenWorkOrder(savedEstimates[i])
    /\ ManualSync("handleManualSync")
    /\ UNCHANGED pendingSync

\* setTimeout(() => onSync(), 500) of handleCompleteJobSubmit
onSyncAfterCompletion ==
    /\ Tick
    /\ pendingSync
    /\ pendingSync' = FALSE
    /\ ManualSync("onSync")

Next ==
    \/ \E id \in 1..MaxEstimates : loadEstimateForEditing(id)
    \/ \E name \in CustomerNames, inventory \in JobInventories, results \in CalcResults,
          targetStatus \in { "", "Invoiced" } :
            saveEstimate(name, inventory, results, targetStatus)
    \/ \E name \in CustomerNames, inventory \in JobInventories, results \in CalcResults,
          proceed \in BOOLEAN :
            confirmWorkOrder(name, inventory, results, proceed)
    \/ \E id \in 1..MaxEstimates, confirmed \in BOOLEAN : handleDeleteEstimate(id, confirmed)
    \/ \E id \in 1..MaxEstimates : handleMarkPaid(id)
    \/ \E id \in 1..MaxEstimates, actuals \in CrewActuals, failure \in Failures :
            handleCompleteJobSubmit(id, actuals, failure)
    \/ \E r \in { "admin", "crew" } : Login(r)
    \/ AutoSync
    \/ handleManualSync
    \/ onSyncAfterCompletion

Spec == Init /\ [][Next]_vars

\* ------------------------------------------------------------------------
\* Properties
\* ------------------------------------------------------------------------

\* the record the editing session points at, before and after a step
Edited == FindEstimate(savedEstimates, editingEstimateId)

EditedAfter == FindEstimate(savedEstimates', editingEstimateId')

\* C2: a confirmWorkOrder that sells an estimate leaves the local foam counters
\* reduced by the required sets (fixed to 2 decimals), and stores the estimate
\* as a Work Order whose materials.reserved holds the required sets and the
\* job's inventory list, whatever that list is.
C2_ConfirmDeductsLocally ==
    [][ lastOp' = "confirmWorkOrder:reserved" =>
          /\ warehouse'.openCellSets =
                toFixed2(warehouse.openCellSets - EditedAfter.materials.openCellSets)
          /\ warehouse'.closedCellSets =
                toFixed2(warehouse.closedCellSets - EditedAfter.materials.closedCellSets)
          /\ EditedAfter.status = "Work Order"
          /\ EditedAfter.materials.reserved =
                [present |-> TRUE,
                 openCellSets |-> EditedAfter.materials.openCellSets,
                 closedCellSets |-> EditedAfter.materials.closedCellSets,
                 inventory |-> EditedAfter.materials.inventory] ]_vars

\* C3: deleting an active Work Order that has a reserved baseline adds the
\* reserved foam to the foam counters and each reserved item quantity to the
\* warehouse item of the same name (each sum fixed to 2 decimals), and removes
\* the estimate from savedEstimates.
C3_DeleteReturnsReserved ==
    [][ \A id \in 1..MaxEstimates :
          LET estimate == FindEstimate(savedEstimates, id)
              reserved == estimate.materials.reserved
          IN ( /\ lastOp' \in { "handleDeleteEstimate:released",
                                 "handleDeleteEstimate:deleted" }
               /\ estimate.id = id
               /\ EstimateIndex(savedEstimates', id) = 0
               /\ estimate.status = "Work Order"
               /\ estimate.executionStatus # "Completed"
               /\ reserved.present )
             => /\ warehouse'.openCellSets =
                     toFixed2(warehouse.openCellSets + reserved.openCellSets)
                /\ warehouse'.closedCellSets =
                     toFixed2(warehouse.closedCellSets + reserved.closedCellSets)
                /\ Len(warehouse'.items) = Len(warehouse.items)
                /\ \A i \in 1..Len(warehouse.items) :
                     /\ warehouse'.items[i].name = warehouse.items[i].name
                     /\ warehouse'.items[i].quantity =
                          toFixed2(warehouse.items[i].quantity
                                   + SumQuantity(reserved.inventory, warehouse.items[i].name))
                /\ savedEstimates' = WithoutEstimate(savedEstimates, id) ]_vars

\* a Work Order that had reserved 4.00 and 2.00 sets of foam and 1.00 of a
\* stocked item was deleted from a warehouse showing 6.00 sets and 2.00 of the
\* item: the counter stands at 10.00, the item at 3.00, and the three stock
\* writes were issued
C3_Witness ==
    /\ lastOp = "handleDeleteEstimate:released"
    /\ remoteCalls = { "deleteEstimateById", "updateFoamStock", "syncWarehouseItems" }
    /\ savedEstimates = << >>
    /\ warehouse.openCellSets = 3000
    /\ warehouse.items[1].quantity = 900

\* C4: confirming an estimate that is already a Work Order, with the required
\* foam and the inventory list as the record holds them, changes neither the
\* local warehouse nor the stored stock, issues no stock write and leaves
\* materials.reserved as it was.
C4_ReconfirmIsIdempotent ==
    [][ ( /\ lastOp' \in { "confirmWorkOrder:resold", "confirmWorkOrder:reserved" }
          /\ Edited.id # 0
          /\ Edited.status = "Work Order"
          /\ EditedAfter.id = Edited.id
          /\ EditedAfter.materials.openCellSets = Edited.materials.openCellSets
          /\ EditedAfter.materials.closedCellSets = Edited.materials.closedCellSets
          /\ EditedAfter.materials.inventory = Edited.materials.inventory )
        => /\ warehouse' = warehouse
           /\ db'.openCellSets = db.openCellSets
           /\ db'.closedCellSets = db.closedCellSets
           /\ db'.items = db.items
           /\ remoteCalls' = { "upsertEstimate" }
           /\ EditedAfter = Edited ]_vars

\* C9: a saveEstimate or confirmWorkOrder with an empty customer name ends with
\* an error notification and changes neither savedEstimates nor the warehouse,
\* locally or in the store.
C9_EmptyNameChangesNothing ==
    [][ lastOp' \in { "saveEstimate:rejected", "confirmWorkOrder:rejected" } =>
          /\ notification' = "error"
          /\ savedEstimates' = savedEstimates
          /\ warehouse' = warehouse
          /\ db' = db ]_vars

\* the foam a list of estimates holds out of a counter: the crew's actual
\* usage for a completed job, the reservation for any other sold job
RECURSIVE Consumed(_, _)
Consumed(estimates, counter) ==
    IF estimates = << >> THEN 0
    ELSE LET e == Head(estimates)
         IN (IF e.executionStatus = "Completed" /\ e.actuals.present
             THEN e.actuals[counter]
             ELSE IF e.materials.reserved.present THEN e.materials.reserved[counter]
             ELSE 0)
            + Consumed(Tail(estimates), counter)

\* source's counters become target's, changed by minus the change of what the
\* estimates hold (fixed to 2 decimals)
Conserves(source, target, before, after) ==
    \A counter \in { "openCellSets", "closedCellSets" } :
        target[counter] =
            toFixed2(source[counter]
                     - (Consumed(after, counter) - Consumed(before, counter)))

\* every sold job of the list was sold with a reservation, none is completed
AllReserved(estimates) ==
    \A i \in 1..Len(estimates) :
        /\ estimates[i].status = "Work Order" => estimates[i].materials.reserved.present
        /\ estimates[i].executionStatus # "Completed"

\* C1: every reserve (confirmWorkOrder), adjustment (saveEstimate), release
\* (handleDeleteEstimate) and reconciliation (completeJobInSupabase, no remote
\* call failing) of an estimate changes each foam counter by minus the change
\* of what the estimate holds -- its reservation, or the actual usage once
\* completed -- so that the net change over any sequence is minus the final
\* actual usage or the final reservation.
C1_Conservation ==
    [][ /\ ( /\ lastOp' \in { "confirmWorkOrder:reserved", "confirmWorkOrder:resold",
                               "saveEstimate", "handleDeleteEstimate:released",
                               "handleDeleteEstimate:deleted" }
             /\ AllReserved(savedEstimates) )
           => Conserves(warehouse, warehouse', savedEstimates, savedEstimates')
        /\ ( /\ lastOp' = "handleCompleteJobSubmit"
             /\ completion'.failure = "none"
             /\ AllReserved(db.estimates) )
           => Conserves(db, db', db.estimates, db'.estimates) ]_vars

StatusRank(status) ==
    CASE status \in { "Draft", "none" } -> 0
      [] status = "Work Order" -> 1
      [] status = "Invoiced" -> 2
      [] status = "Paid" -> 3

ExecutionRank(executionStatus) ==
    CASE executionStatus \in { "Not Started", "none" } -> 0
      [] executionStatus = "In Progress" -> 1
      [] executionStatus = "Completed" -> 2

\* C5: a bulk push never leaves a stored estimate with a status or an
\* executionStatus less advanced than the one the store held before the push.
C5_PushNeverRegresses ==
    [][ "saveFullAppState" \in remoteCalls' =>
          \A i \in 1..Len(db.estimates) :
              LET before == db.estimates[i]
                  after == FindEstimate(db'.estimates, before.id)
              IN /\ after.id = before.id
                 /\ StatusRank(after.status) >= StatusRank(before.status)
                 /\ ExecutionRank(after.executionStatus)
                       >= ExecutionRank(before.executionStatus) ]_vars

\* C6: a crew session never issues the bulk push.
C6_CrewNeverPushes ==
    role = "crew" => "saveFullAppState" \notin remoteCalls

\* C7: when a remote call of completeJobInSupabase fails, the result reports
\* failure with the warehouse it was given, and the store is as it was before.
C7_FailedCompletionAppliesNothing ==
    [][ (lastOp' = "handleCompleteJobSubmit" /\ completion'.failure # "none") =>
          /\ ~completion'.result.success
          /\ completion'.result.updatedWarehouse = warehouse
          /\ db' = db ]_vars

\* the job the last completion was submitted for, as the crew's device lists it
CompletedJob == FindEstimate(savedEstimates, completion.id)

\* the baseline of a job's reconciliation: materials.reserved when the job
\* has one, the estimated materials otherwise
Baseline(job) ==
    IF job.materials.reserved.present THEN job.materials.reserved ELSE job.materials

\* C8: a completion whose foam stock write succeeds sets each foam counter of
\* the store to the warehouse counter it was given plus the job's baseline
\* less the crew's actual usage, fixed to 2 decimals, and returns those values.
C8_CompletionReconcilesFoam ==
    ( /\ lastOp = "handleCompleteJobSubmit"
      /\ completion.result.success
      /\ completion.failure # "foam:error" )
    => \A counter \in { "openCellSets", "closedCellSets" } :
          /\ db[counter] =
                toFixed2(warehouse[counter]
                         + (Baseline(CompletedJob)[counter] - completion.actuals[counter]))
          /\ completion.result.updatedWarehouse[counter] = db[counter]

\* a job with 4.00 open-cell sets reserved was completed with 4.50 sets used:
\* the store's counter is 0.50 below the counter the crew's device held
C8_Witness ==
    /\ lastOp = "handleCompleteJobSubmit"
    /\ completion.result.success
    /\ CompletedJob.materials.reserved.present
    /\ CompletedJob.materials.reserved.openCellSets = 1200
    /\ completion.actuals.openCellSets = 1350
    /\ db.openCellSets = warehouse.openCellSets - 150

\* the quantities a snapshot is to be computed from: the crew's actuals when
\* the estimate has them, the estimated materials otherwise
Used(estimate) == IF estimate.actuals.present THEN estimate.actuals ELSE estimate.materials

\* C10: the financials of a paid estimate hold the chemical, labor and
\* inventory cost of the crew's actuals when it has actuals and of the
\* estimated materials and man hours otherwise, totalCOGS is their sum plus
\* the misc cost, and netProfit is the revenue less totalCOGS.
C10_SnapshotUsesActuals ==
    \A i \in 1..Len(savedEstimates) :
        LET estimate == savedEstimates[i]
            financials == estimate.financials
            hours == IF estimate.actuals.present /\ estimate.actuals.laborHours # 0
                     THEN estimate.actuals.laborHours ELSE estimate.expenses.manHours
            rate == IF estimate.expenses.laborRate # 0 THEN estimate.expenses.laborRate
                    ELSE Costs.laborRate
            miscCost == estimate.expenses.tripCharge + estimate.expenses.fuelSurcharge
                        + estimate.expenses.other
        IN (lastOp = "handleMarkPaid" /\ financials.present) =>
             /\ financials.chemicalCost =
                   Used(estimate).openCellSets * Costs.openCell
                   + Used(estimate).closedCellSets * Costs.closedCell
             /\ financials.laborCost = hours * rate
             /\ financials.inventoryCost = InventoryCost(Used(estimate).inventory)
             /\ financials.totalCOGS =
                   financials.chemicalCost + financials.laborCost
                   + financials.inventoryCost + miscCost
             /\ financials.netProfit = financials.revenue - financials.totalCOGS

\* the profit_loss rows of the store that belong to an estimate
ProfitLossRows(store, id) ==
    { i \in 1..Len(store.profitLoss) : store.profitLoss[i].estimate_id = id }

\* C11: over any sequence of handleMarkPaid on one estimate the store holds at
\* most one profit_loss row for it, and a snapshot that has been written is
\* neither recomputed nor replaced by a later step.
C11_SnapshotWrittenOnce ==
    [][ \A id \in 1..MaxEstimates :
          /\ Cardinality(ProfitLossRows(db', id)) <= 1
          /\ ( /\ FindEstimate(savedEstimates, id).financials.present
               /\ EstimateIndex(savedEstimates', id) > 0 )
             => FindEstimate(savedEstimates', id).financials
                  = FindEstimate(savedEstimates, id).financials ]_vars

\* C12: once the store holds an estimate's actuals, no later step changes
\* them, and a later completion submitted for that estimate leaves the stock
\* of the store (foam counters, items, usage log) as it was.
C12_ActualsWrittenOnce ==
    [][ \A i \in 1..Len(db.estimates) :
          LET before == db.estimates[i]
              after == FindEstimate(db'.estimates, before.id)
          IN before.actuals.present =>
               /\ after.id = before.id => after.actuals = before.actuals
               /\ (lastOp' = "handleCompleteJobSubmit" /\ completion'.id = before.id)
                    => /\ db'.openCellSets = db.openCellSets
                       /\ db'.closedCellSets = db.closedCellSets
                       /\ db'.items = db.items
                       /\ db'.materialLogs = db.materialLogs ]_vars

\* C13: a step of saveEstimate or confirmWorkOrder that leaves the edited
\* estimate an active Work Order, starting from no record or from an active
\* Work Order with a reserved baseline, leaves it with a reserved baseline,
\* and the foam counters and every warehouse item change by minus the change
\* of that baseline (fixed to 2 decimals): the baseline stays equal to what
\* has been subtracted from the warehouse for the estimate.
C13_ReservedEqualsDeducted ==
    [][ ( /\ lastOp' \in { "confirmWorkOrder:reserved", "confirmWorkOrder:resold",
                            "saveEstimate" }
          /\ IsOpenWorkOrder(EditedAfter)
          /\ \/ Edited.id = 0
             \/ IsOpenWorkOrder(Edited) /\ Edited.materials.reserved.present )
        => LET before == Edited.materials.reserved
               after == EditedAfter.materials.reserved
           IN /\ after.present
              /\ \A counter \in { "openCellSets", "closedCellSets" } :
                    warehouse'[counter] =
                       toFixed2(warehouse[counter] - (after[counter] - before[counter]))
              /\ Len(warehouse'.items) = Len(warehouse.items)
              /\ \A i \in 1..Len(warehouse.items) :
                    warehouse'.items[i].quantity =
                       toFixed2(warehouse.items[i].quantity
                                - ( SumQuantity(after.inventory, warehouse.items[i].name)
                                    - SumQuantity(before.inventory, warehouse.items[i].name) ))
      ]_vars

\* ------------------------------------------------------------------------
\* Sessions of the spreadsheet backend (session.spreadsheetId set): the same
\* handlers, whose "Persist to Supabase" blocks are skipped
\* ------------------------------------------------------------------------

saveEstimateLegacy(name, inventory, results, targetStatus) ==
    /\ Tick
    /\ role = "admin"
    /\ (editingEstimateId = 0 /\ name # "") => created < MaxEstimates
    /\ \E saved \in { SaveEstimate(App, created + 1, name, inventory, results,
                                   targetStatus, NoExtra) } :
          /\ savedEstimates' = saved.savedEstimates
          /\ warehouse' = IF saved.warehouseUpdated THEN saved.newWarehouse ELSE warehouse
          /\ editingEstimateId' = IF saved.ok THEN saved.record.id ELSE editingEstimateId
          /\ notification' = IF saved.ok THEN "success" ELSE "error"
          /\ created' = IF saved.usedNewId THEN created + 1 ELSE created
          /\ lastOp' = IF saved.ok THEN "saveEstimate" ELSE "saveEstimate:rejected"
    /\ remoteCalls' = {}
    /\ UNCHANGED <<role, lastSynced, pendingSync, db, completion>>

\* the appData the second saveEstimate call of confirmWorkOrder closes over:
\* that of the render confirmWorkOrder was created in, whose warehouse.items
\* array the first call has written to in place
StaleApp(saved) ==
    [warehouse |-> [ warehouse EXCEPT !.items = saved.newWarehouse.items ],
     savedEstimates |-> savedEstimates,
     editingEstimateId |-> editingEstimateId]

\* confirmWorkOrder in a spreadsheet session: woUrl tells whether
\* createWorkOrderSheet returned a link, in which case the record is saved a
\* second time with { workOrderSheetUrl }
confirmWorkOrderLegacy(name, inventory, results, proceed, woUrl) ==
    /\ Tick
    /\ role = "admin"
    /\ (editingEstimateId = 0 /\ name # "") => Len(savedEstimates) < MaxEstimates
    /\ (isAlreadySold \/ ~Shortage(results)) => proceed
    /\ IF ~isAlreadySold /\ Shortage(results) /\ ~proceed
       THEN /\ lastOp' = "confirmWorkOrder:declined"
            /\ UNCHANGED <<warehouse, savedEstimates, editingEstimateId, notification,
                           created>>
       ELSE \E sold \in { isAlreadySold } :
            \E afterDeduct \in { IF sold THEN warehouse ELSE Deducted(results) } :
            \E saved \in { SaveEstimate(App, created + 1, name, inventory, results,
                                        "Work Order",
                                        IF sold THEN NoExtra
                                        ELSE ReservationExtra(inventory, results)) } :
            \E again \in { IF saved.ok /\ woUrl
                            THEN SaveEstimate(StaleApp(saved), created + 2, name, inventory,
                                              results, "Work Order", NoExtra)
                            ELSE saved } :
               /\ savedEstimates' = again.savedEstimates
               /\ warehouse' = IF again.warehouseUpdated THEN again.newWarehouse
                               ELSE IF saved.warehouseUpdated THEN saved.newWarehouse
                               ELSE afterDeduct
               /\ editingEstimateId' = IF saved.ok THEN again.record.id
                                       ELSE editingEstimateId
               /\ notification' = IF saved.ok THEN "success" ELSE "error"
               /\ created' = IF ~saved.usedNewId THEN created
                             ELSE IF woUrl THEN created + 2 ELSE created + 1
               /\ lastOp' = IF ~saved.ok THEN "confirmWorkOrder:rejected"
                            ELSE IF sold THEN "confirmWorkOrder:resold"
                            ELSE "confirmWorkOrder:reserved"
    /\ remoteCalls' = {}
    /\ UNCHANGED <<role, lastSynced, pendingSync, db, completion>>

LegacyNext ==
    \/ \E id \in 1..MaxEstimates : loadEstimateForEditing(id)
    \/ \E name \in CustomerNames, inventory \in JobInventories, results \in CalcResults,
          targetStatus \in { "", "Invoiced" } :
            saveEstimateLegacy(name, inventory, results, targetStatus)
    \/ \E name \in CustomerNames, inventory \in JobInventories, results \in CalcResults,
          proceed \in BOOLEAN, woUrl \in BOOLEAN :
            confirmWorkOrderLegacy(name, inventory, results, proceed, woUrl)

LegacySpec == Init /\ [][LegacyNext]_vars

\* C14: a record gets materials.reserved only in a confirmWorkOrder that
\* deducts stock, every such confirmation leaves the record with it, and a
\* record that has it keeps it through every later step in which it stays in
\* savedEstimates.
C14_ReservedIffConfirmed ==
    [][ /\ lastOp' = "confirmWorkOrder:reserved" => EditedAfter.materials.reserved.present
        /\ \A id \in 1..MaxEstimates :
              LET before == FindEstimate(savedEstimates, id)
                  after == FindEstimate(savedEstimates', id)
              IN /\ (before.materials.reserved.present /\ after.id = id)
                      => after.materials.reserved.present
                 /\ (~before.materials.reserved.present /\ after.materials.reserved.present)
                      => lastOp' = "confirmWorkOrder:reserved" ]_vars

\* C16: a step of saveEstimate, confirmWorkOrder or handleMarkPaid never moves
\* the status of a stored estimate backward in Draft < Work Order < Invoiced
\* < Paid; a Paid estimate stays Paid, and confirming an Invoiced or Paid
\* estimate again leaves its status as it was
C16_StatusNeverRegresses ==
    [][ lastOp' \in { "saveEstimate", "confirmWorkOrder:reserved",
                      "confirmWorkOrder:resold", "handleMarkPaid" }
        => \A id \in 1..MaxEstimates :
              LET before == FindEstimate(savedEstimates, id)
                  after == FindEstimate(savedEstimates', id)
              IN (before.id = id /\ after.id = id)
                   => StatusRank(after.status) >= StatusRank(before.status) ]_vars

\* ------------------------------------------------------------------------
\* Two browsers of one company: each runs the admin handlers on its own
\* appData, both write to the one store, and the store's changes reach every
\* subscribed browser as postgres_changes events (useRealtime.ts), some time
\* after the write
\* ------------------------------------------------------------------------

Devices == { 1, 2 }

\* a Draft without foam or prep items, as saveEstimate stores it
TenantDraft(id) ==
    [id |-> id, status |-> "Draft", executionStatus |-> "Not Started",
     customerName |-> "Acme",
     materials |-> [openCellSets |-> 0, closedCellSets |-> 0,
                    inventory |-> NoInventory, reserved |-> NoReserved],
     totalValue |-> 0, expenses |-> JobExpenses, invoiceNumber |-> "",
     actuals |-> NoActuals, financials |-> NoFinancials]

\* the estimates of the company when both browsers have pulled
TenantEstimates == << TenantDraft(1), TenantDraft(2) >>

\* the calculator results the browsers work with: whole hundredths of a set
TenantResults == { r \in CalcResults : toFixed2(r.openCellSets) = r.openCellSets }

TenantInit ==
    /\ role = "admin"
    /\ warehouse = InitialWarehouse
    /\ savedEstimates = TenantEstimates
    /\ editingEstimateId = 0
    /\ notification = "none"
    /\ lastSynced = [warehouse |-> InitialWarehouse, savedEstimates |-> TenantEstimates]
    /\ pendingSync = FALSE
    /\ db = [openCellSets |-> InitialWarehouse.openCellSets,
             closedCellSets |-> InitialWarehouse.closedCellSets,
             items |-> InitialWarehouse.items,
             estimates |-> TenantEstimates,
             materialLogs |-> {},
             profitLoss |-> << >>]
    /\ created = Len(TenantEstimates)
    /\ lastOp = "init"
    /\ remoteCalls = {}
    /\ completion = [ran |-> FALSE]
    /\ steps = 0
    /\ devices = [d \in Devices |-> [warehouse |-> InitialWarehouse,
                                      savedEstimates |-> TenantEstimates,
                                      editingEstimateId |-> 0]]
    /\ inbox = [d \in Devices |-> << >>]
    /\ boot = Booted
    /\ debounce = Settled([warehouse |-> warehouse, savedEstimates |-> savedEstimates])
    /\ inflight = << >>

\* a step of one browser: the variables of the single-browser view stay put
TenantTick ==
    /\ steps < MaxSteps
    /\ steps' = steps + 1
    /\ UNCHANGED <<role, warehouse, savedEstimates, editingEstimateId, notification,
                   lastSynced, pendingSync, created, completion, boot, debounce,
                   inflight>>

\* payloads of the three subscriptions
EstimateEvent(eventType, row) ==
    [table |-> "estimates", eventType |-> eventType, row |-> row,
     openCellSets |-> 0, closedCellSets |-> 0]

CompanyEvent(store) ==
    [table |-> "companies", eventType |-> "UPDATE", row |-> NoEstimate,
     openCellSets |-> store.openCellSets, closedCellSets |-> store.closedCellSets]

\* the event an upsert of record raises on a table holding rows
UpsertEvent(rows, record) ==
    EstimateEvent(IF EstimateIndex(rows, record.id) = 0 THEN "INSERT" ELSE "UPDATE", record)

RECURSIVE UpsertEvents(_, _)
UpsertEvents(rows, records) ==
    IF records = << >> THEN << >>
    ELSE << UpsertEvent(rows, Head(records)) >>
         \o UpsertEvents(UpsertRow(rows, Head(records)), Tail(records))

\* every subscribed browser is sent the events, the writer included
Broadcast(events) == [d \in Devices |-> inbox[d] \o events]

\* the callbacks of useRealtime applied to the latest appData of a browser
Received(app, event) ==
    IF event.table = "companies"
    THEN IF \/ event.openCellSets # app.warehouse.openCellSets
            \/ event.closedCellSets # app.warehouse.closedCellSets
         THEN [ app EXCEPT !.warehouse.openCellSets = event.openCellSets,
                           !.warehouse.closedCellSets = event.closedCellSets ]
         ELSE app
    ELSE CASE event.eventType = "INSERT" ->
                IF EstimateIndex(app.savedEstimates, event.row.id) = 0
                THEN [ app EXCEPT !.savedEstimates = Append(@, event.row) ]
                ELSE app
           [] event.eventType = "UPDATE" ->
                IF EstimateIndex(app.savedEstimates, event.row.id) = 0 THEN app
                ELSE [ app EXCEPT
                         !.savedEstimates[EstimateIndex(app.savedEstimates, event.row.id)]
                            = event.row ]
           [] event.eventType = "DELETE" ->
                [ app EXCEPT !.savedEstimates = WithoutEstimate(@, event.row.id) ]

\* the realtime channel hands a browser its next event
deliver(d) ==
    /\ TenantTick
    /\ inbox[d] # << >>
    /\ devices' = [ devices EXCEPT ![d] = Received(@, Head(inbox[d])) ]
    /\ inbox' = [ inbox EXCEPT ![d] = Tail(@) ]
    /\ lastOp' = "realtime"
    /\ remoteCalls' = {}
    /\ UNCHANGED db

deviceLoadEstimateForEditing(d, id) ==
    /\ TenantTick
    /\ EstimateIndex(devices[d].savedEstimates, id) > 0
    /\ devices[d].editingEstimateId # id
    /\ devices' = [ devices EXCEPT ![d].editingEstimateId = id ]
    /\ lastOp' = "loadEstimateForEditing"
    /\ remoteCalls' = {}
    /\ UNCHANGED <<db, inbox>>

\* the form of a browser that has an estimate open holds its customer and
\* prep items; the sets come from the calculator
DeviceForm(d) == FindEstimate(devices[d].savedEstimates, devices[d].editingEstimateId)

\* saveEstimate on the estimate the browser has open
deviceSaveEstimate(d, results) ==
    /\ TenantTick
    /\ devices[d].editingEstimateId # 0
    /\ \E saved \in { SaveEstimate(devices[d], 0, "Acme", DeviceForm(d).materials.inventory,
                                    results, "", NoExtra) } :
       \E persisted \in { PersistSave(db, saved) } :
          /\ devices' = [ devices EXCEPT
                            ![d].savedEstimates = saved.savedEstimates,
                            ![d].warehouse = IF saved.warehouseUpdated
                                             THEN saved.newWarehouse ELSE @ ]
          /\ db' = persisted
          /\ inbox' = Broadcast(<< UpsertEvent(db.estimates, saved.record) >>
                                \o (IF saved.foamStockChanged
                                    THEN << CompanyEvent(persisted) >> ELSE << >>))
          /\ remoteCalls' = SaveCalls(saved)
    /\ lastOp' = "saveEstimate"

\* confirmWorkOrder on the estimate the browser has open, a shortage prompt
\* being answered with OK
deviceConfirmWorkOrder(d, results) ==
    /\ TenantTick
    /\ devices[d].editingEstimateId # 0
    /\ \E sold \in { DeviceForm(d).status \in { "Work Order", "Invoiced", "Paid" } } :
       \E afterDeduct \in { IF sold THEN devices[d].warehouse
                             ELSE [ devices[d].warehouse EXCEPT
                                      !.openCellSets = toFixed2(@ - results.openCellSets),
                                      !.closedCellSets = toFixed2(@ - results.closedCellSets) ] } :
       \E saved \in { SaveEstimate(devices[d], 0, "Acme", DeviceForm(d).materials.inventory,
                                    results, "Work Order",
                                    IF sold THEN NoExtra
                                    ELSE ReservationExtra(DeviceForm(d).materials.inventory,
                                                          results)) } :
       \E persisted \in { IF sold THEN PersistSave(db, saved)
                           ELSE [ PersistSave(db, saved) EXCEPT
                                    !.openCellSets = afterDeduct.openCellSets,
                                    !.closedCellSets = afterDeduct.closedCellSets ] } :
          /\ devices' = [ devices EXCEPT
                            ![d].savedEstimates = saved.savedEstimates,
                            ![d].warehouse = IF saved.warehouseUpdated
                                             THEN saved.newWarehouse ELSE afterDeduct ]
          /\ db' = persisted
          /\ inbox' = Broadcast(<< UpsertEvent(db.estimates, saved.record) >>
                                \o (IF saved.foamStockChanged
                                    THEN << CompanyEvent(PersistSave(db, saved)) >>
                                    ELSE << >>)
                                \o (IF sold THEN << >> ELSE << CompanyEvent(persisted) >>))
          /\ remoteCalls' = SaveCalls(saved)
                              \cup (IF sold THEN {} ELSE { "updateFoamStock" })
          /\ lastOp' = IF sold THEN "confirmWorkOrder:resold" ELSE "confirmWorkOrder:reserved"

\* handleDeleteEstimate, the confirm() prompt answered with OK
deviceDeleteEstimate(d, id) ==
    /\ TenantTick
    /\ EstimateIndex(devices[d].savedEstimates, id) > 0
    /\ \E released \in { ReleasedWarehouse(devices[d].warehouse,
                                            FindEstimate(devices[d].savedEstimates, id)) } :
       \E returned \in { [ db EXCEPT
                             !.openCellSets = IF released.foamReturned
                                              THEN released.newWarehouse.openCellSets ELSE @,
                             !.closedCellSets = IF released.foamReturned
                                                THEN released.newWarehouse.closedCellSets
                                                ELSE @,
                             !.items = IF released.warehouseUpdated
                                       THEN released.newWarehouse.items ELSE @ ] } :
          /\ devices' = [ devices EXCEPT
                            ![d].savedEstimates = WithoutEstimate(@, id),
                            ![d].warehouse = IF released.warehouseUpdated
                                             THEN released.newWarehouse ELSE @,
                            ![d].editingEstimateId = IF @ = id THEN 0 ELSE @ ]
          /\ db' = [ returned EXCEPT !.estimates = WithoutEstimate(@, id) ]
          /\ inbox' = Broadcast((IF released.foamReturned
                                 THEN << CompanyEvent(returned) >> ELSE << >>)
                                \o (IF EstimateIndex(db.estimates, id) > 0
                                    THEN << EstimateEvent("DELETE",
                                                          FindEstimate(db.estimates, id)) >>
                                    ELSE << >>))
          /\ remoteCalls' = { "deleteEstimateById" }
                \cup (IF released.foamReturned THEN { "updateFoamStock" } ELSE {})
                \cup (IF released.warehouseUpdated THEN { "syncWarehouseItems" } ELSE {})
    /\ lastOp' = "handleDeleteEstimate"

\* saveFullAppState with the appData of the browser: the sync button, or the
\* debounce timer when the appData differs from what was last pushed
devicePush(d) ==
    /\ TenantTick
    /\ db' = SaveFullAppState(db, devices[d].warehouse, devices[d].savedEstimates)
    /\ inbox' = Broadcast(<< CompanyEvent(db') >>
                          \o UpsertEvents(db.estimates, devices[d].savedEstimates))
    /\ remoteCalls' = { "saveFullAppState" }
    /\ lastOp' = "saveFullAppState"
    /\ UNCHANGED devices

\* each browser opens an estimate of its own, confirms and edits it, and
\* receives the other's changes
FoamNext ==
    \/ \E d \in Devices : deliver(d)
    \/ \E d \in Devices : deviceLoadEstimateForEditing(d, TenantEstimates[d].id)
    \/ \E d \in Devices, results \in TenantResults : deviceSaveEstimate(d, results)
    \/ \E d \in Devices, results \in TenantResults : deviceConfirmWorkOrder(d, results)

FoamSpec == TenantInit /\ [][FoamNext]_vars

\* the browsers also delete and push
TenantNext ==
    \/ FoamNext
    \/ \E d \in Devices, id \in 1..Len(TenantEstimates) : deviceDeleteEstimate(d, id)
    \/ \E d \in Devices : devicePush(d)

TenantSpec == TenantInit /\ [][TenantNext]_vars

\* the foam of a kind the estimates of the store hold reserved
RECURSIVE ReservedFoam(_, _)
ReservedFoam(rows, counter) ==
    IF rows = << >> THEN 0
    ELSE (IF Head(rows).materials.reserved.present
          THEN Head(rows).materials.reserved[counter] ELSE 0)
         + ReservedFoam(Tail(rows), counter)

\* C15: whichever way two browsers' confirmations and Work Order edits of
\* different estimates interleave, the foam counters of the store equal the
\* initial counters minus everything the browsers deducted, which is the foam
\* the estimates hold reserved: no deduction is lost
C15_NoLostFoamUpdate ==
    \A counter \in { "openCellSets", "closedCellSets" } :
        db[counter] = InitialWarehouse[counter] - ReservedFoam(db.estimates, counter)

\* C20: once handleDeleteEstimate has removed an estimate from the store, no
\* later step (a push or a save from a browser that still holds it, a realtime
\* event) brings a row with its id back to the store, or a record with its id
\* back to a browser that no longer had it
C20_DeletedStaysDeleted ==
    [][ \A id \in 1..Len(TenantEstimates) :
           EstimateIndex(db.estimates, id) = 0
             => /\ EstimateIndex(db'.estimates, id) = 0
                /\ \A d \in Devices :
                      EstimateIndex(devices[d].savedEstimates, id) = 0
                        => EstimateIndex(devices'[d].savedEstimates, id) = 0 ]_vars

\* ------------------------------------------------------------------------
\* The admin handlers when the store may refuse: every remote call of a
\* handler resolves ("ok"), resolves with Supabase's error set, which the
\* database.ts wrappers turn into null or false ("failure"), or rejects
\* ("thrown")
\* ------------------------------------------------------------------------

Outcomes == { "ok", "failure", "thrown" }

\* the branch label of a handler whose remote calls ended with outcome
Branch(op, outcome) ==
    IF outcome = "ok" THEN op
    ELSE IF outcome = "failure" THEN op \o ":failure" ELSE op \o ":thrown"

\* saveEstimate: the three writes are started and left to .catch(console.error)
saveEstimateRemote(name, inventory, results, targetStatus, outcome) ==
    /\ Tick
    /\ role = "admin"
    /\ (editingEstimateId = 0 /\ name # "") => created < MaxEstimates
    /\ name = "" => outcome = "ok"   \* nothing is sent
    /\ \E saved \in { SaveEstimate(App, created + 1, name, inventory, results,
                                   targetStatus, NoExtra) } :
          /\ savedEstimates' = saved.savedEstimates
          /\ warehouse' = IF saved.warehouseUpdated THEN saved.newWarehouse ELSE warehouse
          /\ editingEstimateId' = IF saved.ok THEN saved.record.id ELSE editingEstimateId
          /\ notification' = IF saved.ok THEN "success" ELSE "error"
          /\ db' = IF saved.ok /\ outcome = "ok" THEN PersistSave(db, saved) ELSE db
          /\ created' = IF saved.usedNewId THEN created + 1 ELSE created
          /\ lastOp' = IF saved.ok THEN Branch("saveEstimate", outcome)
                       ELSE "saveEstimate:rejected"
          /\ remoteCalls' = IF saved.ok THEN SaveCalls(saved) ELSE {}
    /\ UNCHANGED <<role, lastSynced, pendingSync, completion>>

\* confirmWorkOrder: saveEstimate as above, then await updateFoamStock, whose
\* result is not looked at and whose rejection nothing catches; the last
\* notification dispatched is a success one either way
confirmWorkOrderRemote(name, inventory, results, outcome) ==
    /\ Tick
    /\ role = "admin"
    /\ (editingEstimateId = 0 /\ name # "") => created < MaxEstimates
    /\ name = "" => outcome = "ok"
    /\ \E sold \in { isAlreadySold } :
       \E afterDeduct \in { IF sold THEN warehouse ELSE Deducted(results) } :
       \E saved \in { SaveEstimate(App, created + 1, name, inventory, results,
                                    "Work Order",
                                    IF sold THEN NoExtra
                                    ELSE ReservationExtra(inventory, results)) } :
       \E persisted \in { IF saved.ok /\ outcome = "ok" THEN PersistSave(db, saved) ELSE db } :
          /\ savedEstimates' = saved.savedEstimates
          /\ warehouse' = IF saved.warehouseUpdated THEN saved.newWarehouse
                          ELSE afterDeduct
          /\ editingEstimateId' = IF saved.ok THEN saved.record.id
                                  ELSE editingEstimateId
          /\ notification' = IF saved.ok THEN "success" ELSE "error"
          /\ db' = IF saved.ok /\ ~sold /\ outcome = "ok"
                   THEN [ persisted EXCEPT
                            !.openCellSets = afterDeduct.openCellSets,
                            !.closedCellSets = afterDeduct.closedCellSets ]
                   ELSE persisted
          /\ created' = IF saved.usedNewId THEN created + 1 ELSE created
          /\ lastOp' = IF ~saved.ok THEN "confirmWorkOrder:rejected"
                       ELSE Branch("confirmWorkOrder", outcome)
          /\ remoteCalls' = IF ~saved.ok THEN {}
                            ELSE SaveCalls(saved)
                                 \cup (IF sold THEN {} ELSE { "updateFoamStock" })
    /\ UNCHANGED <<role, lastSynced, pendingSync, completion>>

\* handleDeleteEstimate, the prompt answered with OK: the awaited calls sit
\* in a try block whose catch dispatches the error notification
handleDeleteEstimateRemote(id, outcome) ==
    /\ Tick
    /\ role = "admin"
    /\ EstimateIndex(savedEstimates, id) > 0
    /\ \E released \in { ReleasedWarehouse(warehouse, FindEstimate(savedEstimates, id)) } :
          /\ savedEstimates' = WithoutEstimate(savedEstimates, id)
          /\ warehouse' = IF released.warehouseUpdated THEN released.newWarehouse
                          ELSE warehouse
          /\ editingEstimateId' = IF editingEstimateId = id THEN 0
                                  ELSE editingEstimateId
          /\ db' = IF outcome # "ok" THEN db
                   ELSE [ db EXCEPT
                            !.openCellSets = IF released.foamReturned
                                             THEN released.newWarehouse.openCellSets ELSE @,
                            !.closedCellSets = IF released.foamReturned
                                               THEN released.newWarehouse.closedCellSets
                                               ELSE @,
                            !.items = IF released.warehouseUpdated
                                      THEN released.newWarehouse.items ELSE @,
                            !.estimates = WithoutEstimate(@, id) ]
          /\ notification' = IF outcome = "thrown" THEN "error" ELSE "success"
          /\ lastOp' = Branch("handleDeleteEstimate", outcome)
          /\ remoteCalls' = { "deleteEstimateById" }
                \cup (IF released.foamReturned THEN { "updateFoamStock" } ELSE {})
                \cup (IF released.warehouseUpdated THEN { "syncWarehouseItems" } ELSE {})
    /\ UNCHANGED <<role, lastSynced, pendingSync, created, completion>>

RemoteNext ==
    \/ \E id \in 1..MaxEstimates : loadEstimateForEditing(id)
    \/ \E name \in CustomerNames, inventory \in JobInventories, results \in CalcResults,
          outcome \in Outcomes :
            saveEstimateRemote(name, inventory, results, "", outcome)
    \/ \E name \in CustomerNames, inventory \in JobInventories, results \in CalcResults,
          outcome \in Outcomes :
            confirmWorkOrderRemote(name, inventory, results, outcome)
    \/ \E id \in 1..MaxEstimates, outcome \in Outcomes : handleDeleteEstimateRemote(id, outcome)

RemoteSpec == Init /\ [][RemoteNext]_vars

\* C19: when the remote calls of saveEstimate, confirmWorkOrder or
\* handleDeleteEstimate fail (a failure value or a rejection), the store is
\* left as it was, the local change stays (the saved record is in
\* savedEstimates, the deleted one is gone) and the notification shown is an
\* error
C19_RemoteFailureIsReported ==
    [][ \A op \in { "saveEstimate", "confirmWorkOrder", "handleDeleteEstimate" } :
          lastOp' \in { Branch(op, "failure"), Branch(op, "thrown") }
            => /\ db' = db
               /\ IF op = "handleDeleteEstimate"
                  THEN Len(savedEstimates') = Len(savedEstimates) - 1
                  ELSE EditedAfter.id # 0
               /\ notification' = "error" ]_vars

\* ------------------------------------------------------------------------
\* Start-up (useSync.ts, "2. CLOUD-FIRST INITIALIZATION"): a session is set,
\* initializeApp pulls the company's data, and the pull settles one way or
\* another
\* ------------------------------------------------------------------------

Usernames == { "alice", "bob" }

\* DEFAULT_STATE, as far as the modelled sections go
DefaultState ==
    [warehouse |-> [openCellSets |-> 0, closedCellSets |-> 0, items |-> << >>],
     savedEstimates |-> << >>]

\* what localStorage may hold under foamProState_<username>: nothing, text
\* that is not JSON, or the JSON of an earlier appData
CachedTexts ==
    { [kind |-> "none", state |-> DefaultState],
      [kind |-> "malformed", state |-> DefaultState],
      [kind |-> "json",
       state |-> [warehouse |-> InitialWarehouse, savedEstimates |-> << LegacyWorkOrder >>]],
      [kind |-> "json",
       state |-> [warehouse |-> [ InitialWarehouse EXCEPT !.openCellSets = 900 ],
                  savedEstimates |-> << >>]] }

\* lastSyncedStateRef before anything was pulled or pushed: the empty string,
\* which is the JSON of no appData
NeverSynced == [warehouse |-> << >>, savedEstimates |-> << >>]

\* how the pull settles: the data of the store, null, or an exception
PullOutcomes == { "data", "empty", "thrown" }

\* mergedState: { ...DEFAULT_STATE, ...cloudData }
CloudData(store) ==
    [warehouse |-> [openCellSets |-> store.openCellSets,
                    closedCellSets |-> store.closedCellSets,
                    items |-> store.items],
     savedEstimates |-> store.estimates]

\* the catch block always falling through to the defaults
LocalFallback_Defaults(text) == DefaultState

\* the catch block: JSON.parse of the cached text, DEFAULT_STATE when it does
\* not parse or when nothing is cached
LocalFallback(text) ==
    IF text.kind = "json" THEN text.state ELSE DefaultState

BootInit ==
    /\ role = "admin"
    /\ warehouse = DefaultState.warehouse
    /\ savedEstimates = DefaultState.savedEstimates
    /\ editingEstimateId = 0
    /\ notification = "none"
    /\ lastSynced = NeverSynced
    /\ pendingSync = FALSE
    /\ \E stored \in StoredEstimates :
          db = [openCellSets |-> InitialWarehouse.openCellSets,
                closedCellSets |-> InitialWarehouse.closedCellSets,
                items |-> InitialWarehouse.items,
                estimates |-> stored,
                materialLogs |-> {},
                profitLoss |-> << >>]
    /\ created = 0
    /\ lastOp = "init"
    /\ remoteCalls = {}
    /\ completion = [ran |-> FALSE]
    /\ steps = 0
    /\ devices = << >>
    /\ inbox = << >>
    /\ debounce = Settled(DefaultState)
    /\ inflight = << >>
    /\ \E cache \in [Usernames -> CachedTexts] :
          boot = [pc |-> "noSession", session |-> "none", isLoading |-> FALSE,
                  isInitialized |-> FALSE, outcome |-> "none", cache |-> cache]

\* SET_SESSION (session recovery or the login page): the effect starts
\* initializeApp, which sets isLoading and awaits the pull
SetSession(username) ==
    /\ boot.pc = "noSession"
    /\ boot' = [ boot EXCEPT !.pc = "pulling", !.session = username, !.isLoading = TRUE ]
    /\ lastOp' = "SET_SESSION"
    /\ UNCHANGED <<role, warehouse, savedEstimates, editingEstimateId, notification,
                   lastSynced, pendingSync, db, created, remoteCalls, completion, steps,
                   devices, inbox, debounce, inflight>>

\* the awaited pull settles and initializeApp runs to the end of its finally
PullSettles(outcome) ==
    /\ boot.pc = "pulling"
    /\ \E loaded \in { IF outcome = "data" THEN CloudData(db)
                         ELSE LocalFallback(boot.cache[boot.session]) } :
          /\ warehouse' = loaded.warehouse
          /\ savedEstimates' = loaded.savedEstimates
          /\ lastSynced' = IF outcome = "data" THEN loaded ELSE lastSynced
    /\ notification' = IF outcome = "data" THEN notification ELSE "error"
    /\ boot' = [ boot EXCEPT !.pc = "done", !.isInitialized = TRUE, !.isLoading = FALSE,
                             !.outcome = outcome ]
    /\ lastOp' = "initializeApp"
    /\ UNCHANGED <<role, editingEstimateId, pendingSync, db, created, remoteCalls,
                   completion, steps, devices, inbox, debounce, inflight>>

BootNext ==
    \/ \E username \in Usernames : SetSession(username)
    \/ \E outcome \in PullOutcomes : PullSettles(outcome)

\* an awaited pull settles: with loadFullAppState's own catch and the
\* browser's network timeout, no pull stays pending for ever
BootSpec ==
    BootInit /\ [][BootNext]_vars /\ WF_vars(\E outcome \in PullOutcomes : PullSettles(outcome))

\* C18: once a session is set, initialization finishes with isInitialized
\* true and isLoading false whichever way the pull settles; when the pull
\* gave no data, the dataset is the snapshot cached for the session's
\* username if there is one and the defaults otherwise, and an error
\* notification is shown
C18_InitializationFinishes ==
    /\ [][ (boot.pc = "pulling" /\ boot'.pc = "done" /\ boot'.outcome # "data")
            => /\ notification' = "error"
               /\ [warehouse |-> warehouse', savedEstimates |-> savedEstimates']
                    = IF boot.cache[boot.session].kind = "json"
                      THEN boot.cache[boot.session].state
                      ELSE DefaultState ]_vars
    /\ (boot.pc = "pulling") ~> (boot.pc = "done" /\ boot.isInitialized /\ ~boot.isLoading)

\* the pull threw, and the app runs on the snapshot cached for the user
C18_Witness ==
    /\ boot.pc = "done"
    /\ boot.outcome = "thrown"
    /\ boot.isInitialized /\ ~boot.isLoading
    /\ notification = "error"
    /\ savedEstimates = << LegacyWorkOrder >>
    /\ boot.cache[boot.session].kind = "json"
    /\ boot.cache[boot.session].state
         = [warehouse |-> warehouse, savedEstimates |-> savedEstimates]

\* ------------------------------------------------------------------------
\* The debounce of the auto-sync effect (useSync.ts, "3. AUTO-SYNC") on an
\* initialised admin device; time is counted in seconds since the timer was
\* armed
\* ------------------------------------------------------------------------

\* setTimeout(..., 3000)
Delay == 3

\* the "+" and "-" buttons of the Warehouse screen: a quarter of a set
StockSteps == { 75, 0 - 75 }

\* Math.max(0, value)
Max0(value) == IF value < 0 THEN 0 ELSE value

\* the effect arming its timer whatever lastSyncedStateRef holds
AutoSyncEffect_AlwaysArmed(appData) ==
    [armed |-> TRUE, elapsed |-> 0, data |-> appData, cache |-> appData]

\* the effect re-run by a new appData: the clean-up of the previous run
\* clears the timer, the JSON goes to localStorage, and a timer is armed
\* unless the JSON equals lastSyncedStateRef
AutoSyncEffect(appData) ==
    [armed |-> appData # lastSynced, elapsed |-> 0, data |-> appData, cache |-> appData]

\* handleWarehouseStockChange(field, value): a local mutation of appData
handleWarehouseStockChange(field, step) ==
    /\ steps < MaxSteps
    /\ steps' = steps + 1
    /\ role = "admin"
    /\ debounce.armed => debounce.elapsed < Delay
    /\ warehouse' = [ warehouse EXCEPT ![field] = Max0(@ + step) ]
    /\ debounce' = AutoSyncEffect([warehouse |-> warehouse', savedEstimates |-> savedEstimates])
    /\ lastOp' = "handleWarehouseStockChange"
    /\ remoteCalls' = {}
    /\ UNCHANGED <<role, savedEstimates, editingEstimateId, notification, lastSynced,
                   pendingSync, db, created, completion, devices, inbox, boot, inflight>>

\* a second passes with the timer armed
SecondPasses ==
    /\ debounce.armed
    /\ debounce.elapsed < Delay
    /\ debounce' = [ debounce EXCEPT !.elapsed = @ + 1 ]
    /\ lastOp' = "wait"
    /\ remoteCalls' = {}
    /\ UNCHANGED <<role, warehouse, savedEstimates, editingEstimateId, notification,
                   lastSynced, pendingSync, db, created, completion, steps, devices, inbox,
                   boot, inflight>>

\* the timer fires: saveFullAppState with the appData the effect closed over
TimerFires(success) ==
    /\ debounce.armed
    /\ debounce.elapsed = Delay
    /\ db' = IF success
             THEN SaveFullAppState(db, debounce.data.warehouse, debounce.data.savedEstimates)
             ELSE db
    /\ lastSynced' = IF success THEN debounce.data ELSE lastSynced
    /\ debounce' = [ debounce EXCEPT !.armed = FALSE, !.elapsed = 0 ]
    /\ lastOp' = "autoSync"
    /\ remoteCalls' = { "saveFullAppState" }
    /\ UNCHANGED <<role, warehouse, savedEstimates, editingEstimateId, notification,
                   pendingSync, created, completion, steps, devices, inbox, boot,
                   inflight>>

DebounceNext ==
    \/ \E field \in { "openCellSets", "closedCellSets" }, step \in StockSteps :
            handleWarehouseStockChange(field, step)
    \/ SecondPasses
    \/ \E success \in BOOLEAN : TimerFires(success)

DebounceSpec == Init /\ [][DebounceNext]_vars

\* a push is made only by the timer, Delay after the last mutation, with the
\* appData as of that mutation; a mutation writes the JSON to localStorage
\* and replaces whatever timer was pending
PushOnlyWhenDue ==
    /\ "saveFullAppState" \in remoteCalls'
          => /\ debounce.armed /\ debounce.elapsed = Delay
             /\ debounce.data = [warehouse |-> warehouse, savedEstimates |-> savedEstimates]
    /\ lastOp' = "handleWarehouseStockChange"
          => /\ remoteCalls' = {}
             /\ debounce'.cache = [warehouse |-> warehouse', savedEstimates |-> savedEstimates']
             /\ debounce'.data = debounce'.cache
             /\ debounce'.elapsed = 0

\* C17 as stated: every mutation of a burst leaves exactly one timer armed
\* for the appData it produced, so that the burst ends in exactly one push,
\* Delay after its last mutation and carrying the appData as of it
C17_OnePushPerBurst ==
    [][ /\ PushOnlyWhenDue
        /\ lastOp' = "handleWarehouseStockChange" => debounce'.armed ]_vars

\* C17: a burst ends in one push as above unless its last mutation brings
\* appData back to what was last pulled or pushed, in which case the pending
\* timer is cleared and no push is made
C17_OnePushUnlessUnchanged ==
    [][ /\ PushOnlyWhenDue
        /\ lastOp' = "handleWarehouseStockChange"
              => (debounce'.armed <=> debounce'.data # lastSynced') ]_vars

\* two mutations in a burst, and the push of the second one's appData made
\* when the delay had passed
C17_Witness ==
    /\ lastOp = "autoSync"
    /\ steps = 2
    /\ ~debounce.armed
    /\ lastSynced = [warehouse |-> warehouse, savedEstimates |-> savedEstimates]
    /\ warehouse.openCellSets = InitialWarehouse.openCellSets + 75 + 75

\* C21: a saveEstimate with target status Invoiced leaves the foam counters
\* and every item quantity of the warehouse as they were, whatever inventory
\* list the invoice carries, and the saved record has an invoice number
C21_InvoiceHasNoStockEffect ==
    [][ (lastOp' = "saveEstimate" /\ EditedAfter.status = "Invoiced")
          => /\ warehouse' = warehouse
             /\ EditedAfter.invoiceNumber # "" ]_vars

\* C22: a saveEstimate whose record is a Draft before (or new) and a Draft
\* after leaves the warehouse as it was, whatever the job inventory list
C22_DraftSaveLeavesWarehouse ==
    [][ ( /\ lastOp' = "saveEstimate"
          /\ EditedAfter.status = "Draft"
          /\ (editingEstimateId = 0 \/ Edited.status = "Draft") )
          => warehouse' = warehouse ]_vars

\* C23: the snapshot handleMarkPaid stores for an estimate of revenue 0 has
\* margin 0, without a division by zero; for a revenue above 0 the margin is
\* the snapshot's netProfit over its revenue
C23_MarginOfZeroRevenue ==
    [][ lastOp' = "handleMarkPaid"
          => \A i \in 1..Len(savedEstimates') :
                LET before == FindEstimate(savedEstimates, savedEstimates'[i].id)
                    financials == savedEstimates'[i].financials
                IN (savedEstimates'[i] # before)
                     => /\ financials.present
                        /\ financials.revenue = before.totalValue
                        /\ financials.margin.denominator # 0
                        /\ financials.revenue = 0 => financials.margin.numerator = 0
                        /\ financials.revenue > 0
                              => /\ financials.margin.numerator = financials.netProfit
                                 /\ financials.margin.denominator = financials.revenue ]_vars

\* an estimate quoted at 0 has been marked paid: its costs make the net
\* profit negative, and the margin is 0
C23_Witness ==
    /\ lastOp = "handleMarkPaid"
    /\ \E i \in 1..Len(savedEstimates) :
          /\ savedEstimates[i].status = "Paid"
          /\ savedEstimates[i].totalValue = 0
          /\ savedEstimates[i].financials.revenue = 0
          /\ savedEstimates[i].financials.netProfit < 0
          /\ savedEstimates[i].financials.margin.numerator = 0

\* ------------------------------------------------------------------------
\* Stock arithmetic: purchase orders next to reservation and release
\* ------------------------------------------------------------------------

\* po.items of the orders the Material Order screen saves: 2.00 sets of
\* open cell; 1.0033 sets of closed cell and a third of a unit of tape
PurchaseOrders ==
    { << [type |-> "open_cell", quantity |-> 600, inventoryId |-> ""] >>,
      << [type |-> "closed_cell", quantity |-> 301, inventoryId |-> ""],
         [type |-> "inventory", quantity |-> 100, inventoryId |-> "tape"] >> }

\* "Add stock to warehouse": po.items.forEach over a copy of the warehouse
RECURSIVE Received_Stock(_, _)
Received_Stock(wh, items) ==
    IF items = << >> THEN wh
    ELSE LET item == Head(items)
             idx == ItemIndex(wh.items, item.inventoryId)
             next == CASE item.type = "open_cell" ->
                            [ wh EXCEPT !.openCellSets = @ + item.quantity ]
                       [] item.type = "closed_cell" ->
                            [ wh EXCEPT !.closedCellSets = @ + item.quantity ]
                       [] OTHER ->
                            IF idx > 0
                            THEN [ wh EXCEPT !.items[idx].quantity = @ + item.quantity ]
                            ELSE wh
         IN Received_Stock(next, Tail(items))

createPurchaseOrder(items) ==
    /\ Tick
    /\ role = "admin"
    /\ warehouse' = Received_Stock(warehouse, items)
    /\ db' = [ db EXCEPT !.openCellSets = warehouse'.openCellSets,
                         !.closedCellSets = warehouse'.closedCellSets,
                         !.items = warehouse'.items ]
    /\ notification' = "success"
    /\ lastOp' = "createPurchaseOrder"
    /\ remoteCalls' = { "insertPurchaseOrder", "updateFoamStock", "syncWarehouseItems" }
    /\ UNCHANGED <<role, savedEstimates, editingEstimateId, lastSynced, pendingSync,
                   created, completion>>

StockNext ==
    \/ \E items \in PurchaseOrders : createPurchaseOrder(items)
    \/ \E name \in CustomerNames, inventory \in JobInventories, results \in CalcResults,
          proceed \in BOOLEAN :
            confirmWorkOrder(name, inventory, results, proceed)
    \/ \E id \in 1..MaxEstimates, confirmed \in BOOLEAN : handleDeleteEstimate(id, confirmed)

StockSpec == Init /\ [][StockNext]_vars

\* Number(x.toFixed(2)) leaves x as it is
Fixed2(x) == toFixed2(x) = x

\* C24: after every operation on the stock (reservation, release, purchase
\* order receipt) the foam counters and the item quantities, on the device
\* and in the store, are whole hundredths
C24_StockFixedTo2Decimals ==
    /\ Fixed2(warehouse.openCellSets) /\ Fixed2(warehouse.closedCellSets)
    /\ \A i \in 1..Len(warehouse.items) : Fixed2(warehouse.items[i].quantity)
    /\ Fixed2(db.openCellSets) /\ Fixed2(db.closedCellSets)
    /\ \A i \in 1..Len(db.items) : Fixed2(db.items[i].quantity)

\* ------------------------------------------------------------------------
\* C25: reconciliation of the named warehouse items at completion
\* ------------------------------------------------------------------------

\* the net delta of one item name: what the job's baseline lists under the
\* name less what the crew reports under it
NetDelta(job, actuals, name) ==
    SumQuantity(Baseline(job).inventory, name) - SumQuantity(actuals.inventory, name)

\* C25: a completion whose item write succeeds changes every warehouse item by
\* the sum of the baseline quantities of its name less the sum of the actual
\* quantities of its name (fixed to 2 decimals), the baseline being the
\* reservation when the job has one and the estimated materials otherwise;
\* an item whose net delta is zero keeps its quantity; the store's items and
\* the returned warehouse's items are those values.
C25_CompletionReconcilesItems ==
    ( /\ lastOp = "handleCompleteJobSubmit"
      /\ completion.result.success
      /\ completion.failure # "items:error" )
    => /\ Len(db.items) = Len(warehouse.items)
       /\ completion.result.updatedWarehouse.items = db.items
       /\ \A i \in 1..Len(warehouse.items) :
            LET delta == NetDelta(CompletedJob, completion.actuals, warehouse.items[i].name)
            IN /\ db.items[i].name = warehouse.items[i].name
               /\ db.items[i].quantity =
                     IF delta = 0 THEN warehouse.items[i].quantity
                     ELSE toFixed2(warehouse.items[i].quantity + delta)

\* a job that reserved 1.0033 tape was completed with no item used: the tape
\* is returned in full, the sum fixed to 2 decimals
C25_Witness ==
    /\ lastOp = "handleCompleteJobSubmit"
    /\ completion.result.success
    /\ completion.failure # "items:error"
    /\ CompletedJob.materials.reserved.present
    /\ SumQuantity(CompletedJob.materials.reserved.inventory, "tape") = 301
    /\ completion.actuals.inventory = NoInventory
    /\ \E i \in 1..Len(warehouse.items) :
          /\ warehouse.items[i].name = "tape"
          /\ db.items[i].quantity = toFixed2(warehouse.items[i].quantity + 301)
          /\ db.items[i].quantity # warehouse.items[i].quantity

\* a job that reserved 1.0033 tape was completed with 2.00 tape used: the
\* tape is 1.00 lower
C25_WitnessNet ==
    /\ lastOp = "handleCompleteJobSubmit"
    /\ completion.result.success
    /\ completion.failure # "items:error"
    /\ CompletedJob.materials.reserved.present
    /\ SumQuantity(CompletedJob.materials.reserved.inventory, "tape") = 301
    /\ SumQuantity(completion.actuals.inventory, "tape") = 600
    /\ \E i \in 1..Len(warehouse.items) :
          /\ warehouse.items[i].name = "tape"
          /\ db.items[i].quantity = toFixed2(warehouse.items[i].quantity - 299)

\* a job with no item reserved was completed with 2.00 tape used: the tape is
\* deducted in full
C25_WitnessActualsOnly ==
    /\ lastOp = "handleCompleteJobSubmit"
    /\ completion.result.success
    /\ completion.failure # "items:error"
    /\ SumQuantity(Baseline(CompletedJob).inventory, "tape") = 0
    /\ \E i \in 1..Len(warehouse.items) :
          /\ warehouse.items[i].name = "tape"
          /\ db.items[i].quantity = warehouse.items[i].quantity - 600

\* ------------------------------------------------------------------------
\* The spreadsheet backend (useRealtime.ts, legacy script): db is the
\* workbook, the app posts its state to handleSyncUp
\* ------------------------------------------------------------------------

\* payloadEstimates.forEach of syncEstimatesWithLogic: an incoming record
\* replaces the stored one of its id, its executionStatus forced to Completed
\* and its status to Paid when the stored one has them
RECURSIVE syncEstimatesWithLogic(_, _)
syncEstimatesWithLogic(rows, payloadEstimates) ==
    IF payloadEstimates = << >> THEN rows
    ELSE LET incoming == Head(payloadEstimates)
             idx == EstimateIndex(rows, incoming.id)
             existing == FindEstimate(rows, incoming.id)
             merged == IF idx = 0 THEN incoming
                       ELSE [ incoming EXCEPT
                                !.executionStatus =
                                    IF existing.executionStatus = "Completed"
                                    THEN "Completed" ELSE @,
                                !.status = IF existing.status = "Paid" THEN "Paid" ELSE @ ]
             next == IF idx = 0 THEN Append(rows, merged)
                     ELSE [ rows EXCEPT ![idx] = merged ]
         IN syncEstimatesWithLogic(next, Tail(payloadEstimates))

\* handleSyncUp: the posted warehouse replaces the stored counters and items,
\* the posted estimates are merged into the estimates tab
handleSyncUp ==
    /\ Tick
    /\ db' = [ db EXCEPT
                 !.openCellSets = warehouse.openCellSets,
                 !.closedCellSets = warehouse.closedCellSets,
                 !.items = warehouse.items,
                 !.estimates = IF Len(savedEstimates) > 0
                               THEN syncEstimatesWithLogic(@, savedEstimates)
                               ELSE @ ]
    /\ lastSynced' = [warehouse |-> warehouse, savedEstimates |-> savedEstimates]
    /\ pendingSync' = FALSE
    /\ lastOp' = "handleSyncUp"
    /\ remoteCalls' = {}
    /\ UNCHANGED <<role, warehouse, savedEstimates, editingEstimateId, notification,
                   created, completion>>

\* "2. Update Inventory Items in Inventory_DB" of handleCompleteJob: each
\* actual item found in the inventory tab loses what was used beyond the
\* estimate
RECURSIVE SheetItems(_, _, _)
SheetItems(items, est, actualInventory) ==
    IF actualInventory = << >> THEN items
    ELSE LET actItem == Head(actualInventory)
             rowIdx == ItemIndex(items, actItem.name)
             estIdx == ItemIndex(est.materials.inventory, actItem.name)
             estQty == IF estIdx = 0 THEN 0 ELSE est.materials.inventory[estIdx].quantity
             diff == actItem.quantity - estQty
             next == IF rowIdx = 0 THEN items
                     ELSE [ items EXCEPT ![rowIdx].quantity = @ - diff ]
         IN SheetItems(next, est, Tail(actualInventory))

\* "Log Material Usage" of handleCompleteJob
SheetLogs(estimateId, actuals) ==
    (IF actuals.openCellSets > 0
     THEN { [estimate_id |-> estimateId, material_name |-> "Open Cell",
             quantity |-> actuals.openCellSets] } ELSE {})
    \cup
    (IF actuals.closedCellSets > 0
     THEN { [estimate_id |-> estimateId, material_name |-> "Closed Cell",
             quantity |-> actuals.closedCellSets] } ELSE {})
    \cup
    { [estimate_id |-> estimateId, material_name |-> actuals.inventory[i].name,
       quantity |-> actuals.inventory[i].quantity] :
         i \in { j \in 1..Len(actuals.inventory) : actuals.inventory[j].quantity > 0 } }

\* handleCompleteJob of the script: the stored record becomes Completed with
\* the actuals, the counters and items lose the usage beyond the estimate
handleCompleteJob(estimateId, actuals) ==
    /\ Tick
    /\ EstimateIndex(db.estimates, estimateId) > 0
    /\ \E est \in { FindEstimate(db.estimates, estimateId) } :
          db' = [ db EXCEPT
                    !.estimates = MarkCompleted(@, estimateId, actuals),
                    !.openCellSets = @ - (actuals.openCellSets - est.materials.openCellSets),
                    !.closedCellSets =
                        @ - (actuals.closedCellSets - est.materials.closedCellSets),
                    !.items = SheetItems(@, est, actuals.inventory),
                    !.materialLogs = @ \cup SheetLogs(estimateId, actuals) ]
    /\ pendingSync' = TRUE
    /\ lastOp' = "handleCompleteJob"
    /\ remoteCalls' = {}
    /\ UNCHANGED <<role, warehouse, savedEstimates, editingEstimateId, notification,
                   lastSynced, created, completion>>

\* the financials handleMarkJobPaid computes: from the actuals when the
\* record has them, from the estimated materials otherwise
SheetFinancials(est, costs) ==
    LET oc == IF est.actuals.present THEN est.actuals.openCellSets
              ELSE est.materials.openCellSets
        cc == IF est.actuals.present THEN est.actuals.closedCellSets
              ELSE est.materials.closedCellSets
        chemCost == oc * costs.openCell + cc * costs.closedCell
        labHrs == IF est.actuals.present /\ est.actuals.laborHours # 0
                  THEN est.actuals.laborHours ELSE est.expenses.manHours
        labCost == labHrs * (IF est.expenses.laborRate # 0 THEN est.expenses.laborRate
                             ELSE costs.laborRate)
        invCost == InventoryCost(IF est.actuals.present THEN est.actuals.inventory
                                 ELSE est.materials.inventory)
        misc == est.expenses.tripCharge + est.expenses.fuelSurcharge
        revenue == est.totalValue
        totalCOGS == chemCost + labCost + invCost + misc
    IN [present |-> TRUE, revenue |-> revenue, chemicalCost |-> chemCost,
        laborCost |-> labCost, inventoryCost |-> invCost,
        totalCOGS |-> totalCOGS, netProfit |-> revenue - totalCOGS,
        margin |-> IF revenue # 0
                   THEN [numerator |-> revenue - totalCOGS, denominator |-> revenue]
                   ELSE [numerator |-> 0, denominator |-> 1]]

\* handleMarkJobPaid of the script: the stored record becomes Paid with its
\* financials, a row is appended to the P&L tab, and the app takes the
\* returned record
handleMarkJobPaid(estimateId) ==
    /\ Tick
    /\ role = "admin"
    /\ EstimateIndex(db.estimates, estimateId) > 0
    /\ \E est \in { [ FindEstimate(db.estimates, estimateId) EXCEPT
                        !.status = "Paid",
                        !.financials = SheetFinancials(FindEstimate(db.estimates, estimateId),
                                                       Costs) ] } :
          /\ db' = [ db EXCEPT
                       !.estimates[EstimateIndex(db.estimates, estimateId)] = est,
                       !.profitLoss = Append(@, [estimate_id |-> est.id,
                                                 total_cogs |-> est.financials.totalCOGS,
                                                 net_profit |-> est.financials.netProfit]) ]
          /\ savedEstimates' =
                IF EstimateIndex(savedEstimates, estimateId) = 0 THEN savedEstimates
                ELSE [ savedEstimates EXCEPT
                         ![EstimateIndex(savedEstimates, estimateId)] = est ]
    /\ notification' = "success"
    /\ lastOp' = "handleMarkJobPaid"
    /\ remoteCalls' = {}
    /\ UNCHANGED <<role, warehouse, editingEstimateId, lastSynced, pendingSync, created,
                   completion>>

SheetNext ==
    \/ \E name \in CustomerNames, inventory \in JobInventories, results \in CalcResults :
          saveEstimateLegacy(name, inventory, results, "")
    \/ \E id \in 1..MaxEstimates : loadEstimateForEditing(id)
    \/ \E id \in 1..MaxEstimates, actuals \in CrewActuals : handleCompleteJob(id, actuals)
    \/ \E id \in 1..MaxEstimates : handleMarkJobPaid(id)
    \/ handleSyncUp

SheetSpec == Init /\ [][SheetNext]_vars

\* whether a record that is Completed has its actuals and one that is Paid
\* its financials
Coherent(e) ==
    /\ e.executionStatus = "Completed" => e.actuals.present
    /\ e.status = "Paid" => e.financials.present

\* C26: every estimate of the store and of the app that is Completed has its
\* actuals, and every one that is Paid has its financials; in particular an
\* estimate the bulk-sync merge keeps Completed or Paid over a stale incoming
\* record keeps them.
C26_CompletedHasActualsPaidHasFinancials ==
    /\ \A i \in 1..Len(db.estimates) : Coherent(db.estimates[i])
    /\ \A i \in 1..Len(savedEstimates) : Coherent(savedEstimates[i])

\* ------------------------------------------------------------------------
\* C27: completion and the commercial status
\* ------------------------------------------------------------------------

\* the actuals a record holds for what the crew submitted
StoredActuals(actuals) ==
    [present |-> TRUE, openCellSets |-> actuals.openCellSets,
     closedCellSets |-> actuals.closedCellSets, inventory |-> actuals.inventory,
     laborHours |-> actuals.laborHours]

C28_DeclinedChangesNothing ==
    [][ lastOp' = "confirmWorkOrder:declined"
        => /\ ~isAlreadySold
           /\ warehouse' = warehouse
           /\ savedEstimates' = savedEstimates
           /\ db' = db
           /\ editingEstimateId' = editingEstimateId ]_vars

\* C28: confirmWorkOrder on an unsold estimate asks for confirmation only
\* when the required sets exceed the stock; a declined confirmation changes
\* neither the warehouse nor the saved estimates; an accepted one reserves
\* the required sets and takes them from the foam counters, which may become
\* negative.
C28_ShortageGate ==
    [][ /\ lastOp' = "confirmWorkOrder:declined"
           => /\ ~isAlreadySold
              /\ warehouse' = warehouse
              /\ savedEstimates' = savedEstimates
        /\ ( /\ lastOp' = "confirmWorkOrder:reserved"
             /\ \E counter \in { "openCellSets", "closedCellSets" } :
                   EditedAfter.materials.reserved[counter] > warehouse[counter] )
           => \A counter \in { "openCellSets", "closedCellSets" } :
                 warehouse'[counter] =
                    toFixed2(warehouse[counter]
                             - EditedAfter.materials.reserved[counter]) ]_vars

\* an accepted shortage: more sets were reserved than were in stock
C28_AcceptedShortage ==
    /\ lastOp = "confirmWorkOrder:reserved"
    /\ \E i \in 1..Len(savedEstimates) :
          /\ savedEstimates[i].id = editingEstimateId
          /\ savedEstimates[i].materials.reserved.present
          /\ db.closedCellSets < 0
          /\ db.closedCellSets = warehouse.closedCellSets

\* ------------------------------------------------------------------------
\* Session recovery (useSync.ts, effect 1) followed by initialization
\* ------------------------------------------------------------------------

\* what localStorage may hold under foamProSession: nothing, text that is
\* not JSON, or the JSON of a session
StoredSessions ==
    { [kind |-> "none", username |-> "none"],
      [kind |-> "malformed", username |-> "none"],
      [kind |-> "json", username |-> "alice"] }

\* ui.isLoading of the reducer's initial state
InitialLoading == BOOLEAN

\* the app as it mounts: the reducer's initial state, no session yet
RecoveryInit ==
    /\ role = "admin"
    /\ warehouse = DefaultState.warehouse
    /\ savedEstimates = DefaultState.savedEstimates
    /\ editingEstimateId = 0
    /\ notification = "none"
    /\ lastSynced = NeverSynced
    /\ pendingSync = FALSE
    /\ \E stored \in StoredEstimates :
          db = [openCellSets |-> InitialWarehouse.openCellSets,
                closedCellSets |-> InitialWarehouse.closedCellSets,
                items |-> InitialWarehouse.items,
                estimates |-> stored,
                materialLogs |-> {},
                profitLoss |-> << >>]
    /\ created = 0
    /\ lastOp = "init"
    /\ remoteCalls = {}
    /\ completion = [ran |-> FALSE]
    /\ steps = 0
    /\ devices = << >>
    /\ inbox = << >>
    /\ debounce = Settled(DefaultState)
    /\ inflight = << >>
    /\ \E cache \in [Usernames -> CachedTexts], stored \in StoredSessions,
          loading \in InitialLoading :
          boot = [pc |-> "mount", session |-> "none", isLoading |-> loading,
                  isInitialized |-> FALSE, outcome |-> "none", cache |-> cache,
                  stored |-> stored, found |-> stored.kind]

\* the session recovery effect: a stored session that parses is set (and
\* initializeApp starts), one that does not parse is removed, and with no
\* stored session SET_LOADING false is dispatched
SessionRecovery ==
    /\ boot.pc = "mount"
    /\ boot' = CASE boot.stored.kind = "json" ->
                      [ boot EXCEPT !.pc = "pulling", !.session = boot.stored.username,
                                    !.isLoading = TRUE ]
                 [] boot.stored.kind = "malformed" ->
                      [ boot EXCEPT !.pc = "noSession",
                                    !.stored = [kind |-> "none", username |-> "none"] ]
                 [] OTHER ->
                      [ boot EXCEPT !.pc = "noSession", !.isLoading = FALSE ]
    /\ lastOp' = "sessionRecovery"
    /\ UNCHANGED <<role, warehouse, savedEstimates, editingEstimateId, notification,
                   lastSynced, pendingSync, db, created, remoteCalls, completion, steps,
                   devices, inbox, debounce, inflight>>

RecoveryNext ==
    \/ SessionRecovery
    \/ \E username \in Usernames : SetSession(username)
    \/ \E outcome \in PullOutcomes : PullSettles(outcome)

RecoverySpec == RecoveryInit /\ [][RecoveryNext]_vars

\* after a failed pull with a cached snapshot that does not parse, the
\* defaults are loaded, the app is initialized and loading has ended
C29_MalformedSnapshotIsCacheMiss ==
    ( /\ lastOp = "initializeApp"
      /\ boot.outcome # "data"
      /\ boot.cache[boot.session].kind = "malformed" )
    => /\ warehouse = DefaultState.warehouse
       /\ savedEstimates = DefaultState.savedEstimates
       /\ boot.isInitialized
       /\ ~boot.isLoading

\* C29: a cached snapshot that does not parse is treated as a cache miss (the
\* defaults are loaded and loading ends), and a stored session entry that
\* does not parse is discarded with loading ended: isLoading is false.
C29_MalformedCacheNeverStuck ==
    /\ C29_MalformedSnapshotIsCacheMiss
    /\ ( lastOp = "sessionRecovery" /\ boot.found = "malformed" )
       => /\ boot.stored.kind = "none"
          /\ boot.session = "none"
          /\ ~boot.isLoading

\* ------------------------------------------------------------------------
\* Initialization followed by the auto-sync effect (useSync.ts, effects 2
\* and 3): steps counts the local mutations made since the app started
\* ------------------------------------------------------------------------

\* initializeApp runs to the end of its finally; the render that follows has
\* isInitialized set and isLoading cleared, so the auto-sync effect runs on
\* the loaded appData: it writes the JSON to localStorage and arms its timer
\* unless the JSON equals lastSyncedStateRef
initializeApp(outcome) ==
    /\ boot.pc = "pulling"
    /\ \E loaded \in { IF outcome = "data" THEN CloudData(db)
                         ELSE LocalFallback(boot.cache[boot.session]) } :
          /\ warehouse' = loaded.warehouse
          /\ savedEstimates' = loaded.savedEstimates
          /\ lastSynced' = IF outcome = "data" THEN loaded ELSE lastSynced
          /\ debounce' = [armed |-> loaded # lastSynced', elapsed |-> 0,
                          data |-> loaded, cache |-> loaded]
    /\ notification' = IF outcome = "data" THEN notification ELSE "error"
    /\ boot' = [ boot EXCEPT !.pc = "done", !.isInitialized = TRUE, !.isLoading = FALSE,
                             !.outcome = outcome ]
    /\ lastOp' = "initializeApp"
    /\ remoteCalls' = {}
    /\ UNCHANGED <<role, editingEstimateId, pendingSync, db, created, completion, steps,
                   devices, inbox, inflight>>

StartupNext ==
    \/ \E username \in Usernames : SetSession(username)
    \/ \E outcome \in PullOutcomes : initializeApp(outcome)
    \/ \E field \in { "openCellSets", "closedCellSets" }, step \in StockSteps :
            boot.pc = "done" /\ handleWarehouseStockChange(field, step)
    \/ boot.pc = "done" /\ SecondPasses
    \/ \E success \in BOOLEAN : boot.pc = "done" /\ TimerFires(success)

StartupSpec == BootInit /\ [][StartupNext]_vars

\* C30: the auto-sync pushes only after a local mutation: as long as the
\* user has edited nothing since the app started, whatever the pull's outcome
\* and whatever was loaded, no timer is armed, no push is made and the store
\* stays as it was.
C30_NoPushWithoutLocalMutation ==
    [][ steps' = 0 => /\ ~debounce'.armed
                      /\ "saveFullAppState" \notin remoteCalls'
                      /\ db' = db ]_vars

\* the timer armed by initialization has fired with no edit made, and the
\* store holds the defaults in place of its stock
C30_DefaultsPushed ==
    /\ lastOp = "autoSync"
    /\ steps = 0
    /\ boot.outcome # "data"
    /\ db.items = << >>
    /\ db.openCellSets = 0

\* ------------------------------------------------------------------------
\* Auto-sync pushes in flight (useSync.ts 114-131, database.ts 682-713): the
\* timer callback awaits saveFullAppState, whose writes land one by one while
\* the user goes on editing; inflight lists the pushes started so far
\* ------------------------------------------------------------------------

\* the timer fires: the callback starts saveFullAppState with the appData and
\* the currentStateStr its effect run closed over
PushStarts ==
    /\ debounce.armed
    /\ debounce.elapsed = Delay
    /\ inflight' = Append(inflight,
                          [data |-> debounce.data, settings |-> FALSE, items |-> FALSE,
                           estimates |-> FALSE, resolved |-> FALSE,
                           overlaps |-> \E i \in 1..Len(inflight) : ~inflight[i].resolved])
    /\ debounce' = [ debounce EXCEPT !.armed = FALSE, !.elapsed = 0 ]
    /\ lastOp' = "autoSync:started"
    /\ remoteCalls' = { "saveFullAppState" }
    /\ UNCHANGED <<role, warehouse, savedEstimates, editingEstimateId, notification,
                   lastSynced, pendingSync, db, created, completion, steps, devices, inbox,
                   boot>>

\* one write of a push reaches the store: updateCompanySettings and
\* syncWarehouseItems are issued together, the estimates are upserted once
\* both have been awaited
WriteLands(i, part) ==
    /\ i \in 1..Len(inflight)
    /\ ~inflight[i][part]
    /\ part = "estimates" => inflight[i].settings /\ inflight[i].items
    /\ db' = CASE part = "settings" ->
                    [ db EXCEPT !.openCellSets = inflight[i].data.warehouse.openCellSets,
                                !.closedCellSets = inflight[i].data.warehouse.closedCellSets ]
               [] part = "items" ->
                    [ db EXCEPT !.items = inflight[i].data.warehouse.items ]
               [] OTHER ->
                    [ db EXCEPT !.estimates = UpsertRows(@, inflight[i].data.savedEstimates) ]
    /\ inflight' = [ inflight EXCEPT ![i][part] = TRUE ]
    /\ lastOp' = "autoSync:write"
    /\ remoteCalls' = {}
    /\ UNCHANGED <<role, warehouse, savedEstimates, editingEstimateId, notification,
                   lastSynced, pendingSync, created, completion, steps, devices, inbox,
                   boot, debounce>>

\* saveFullAppState resolves with true: lastSyncedStateRef becomes the
\* currentStateStr of the effect run that armed the timer
PushResolves(i) ==
    /\ i \in 1..Len(inflight)
    /\ ~inflight[i].resolved
    /\ inflight[i].settings /\ inflight[i].items /\ inflight[i].estimates
    /\ lastSynced' = inflight[i].data
    /\ inflight' = [ inflight EXCEPT ![i].resolved = TRUE ]
    /\ lastOp' = "autoSync"
    /\ remoteCalls' = {}
    /\ UNCHANGED <<role, warehouse, savedEstimates, editingEstimateId, notification,
                   pendingSync, db, created, completion, steps, devices, inbox, boot,
                   debounce>>

OverlapNext ==
    \/ \E step \in StockSteps : handleWarehouseStockChange("openCellSets", step)
    \/ SecondPasses
    \/ PushStarts
    \/ \E i \in 1..MaxSteps, part \in { "settings", "items", "estimates" } : WriteLands(i, part)
    \/ \E i \in 1..MaxSteps : PushResolves(i)

OverlapSpec == Init /\ [][OverlapNext]_vars

\* every push started has resolved and no timer is pending
Quiescent == /\ ~debounce.armed
             /\ \A i \in 1..Len(inflight) : inflight[i].resolved

\* C31: when a push was started while another was in flight, then once every
\* push has resolved and no timer is pending, the store holds the local
\* warehouse and lastSyncedStateRef is the JSON of the local appData.
C31_OverlappingPushesConverge ==
    ( /\ Quiescent
      /\ \E i \in 1..Len(inflight) : inflight[i].overlaps
      /\ debounce.data = inflight[Len(inflight)].data )
    => /\ db.openCellSets = warehouse.openCellSets
       /\ db.closedCellSets = warehouse.closedCellSets
       /\ db.items = warehouse.items
       /\ lastSynced = [warehouse |-> warehouse, savedEstimates |-> savedEstimates]

\* ------------------------------------------------------------------------
\* saveFullAppState with writes that fail (database.ts 682-713) and its two
\* callers (useSync.ts 114-131, 137-159)
\* ------------------------------------------------------------------------

\* the writes of saveFullAppState that touch the modelled part of the store
Writes == { "updateCompanySettings", "syncWarehouseItems", "upsertEstimate" }

\* a write succeeds, resolves with an error, or its request rejects
WriteOutcomes == { "ok", "error", "thrown" }

\* the entry of remoteCalls that tells a write did not succeed
Failed(write) ==
    CASE write = "updateCompanySettings" -> "updateCompanySettings:failed"
      [] write = "syncWarehouseItems" -> "syncWarehouseItems:failed"
      [] OTHER -> "upsertEstimate:failed"

\* saveFullAppState: updateCompanySettings returns false on an error and has
\* no catch of its own; syncWarehouseItems logs an upsert error and returns
\* true, and returns false from its own catch; the result of upsertEstimate
\* is not looked at; the outer catch returns false
SaveFullAppStateResult(store, appData, outcome) ==
    LET rejected == outcome["updateCompanySettings"] = "thrown"
        upserts == ~rejected /\ Len(appData.savedEstimates) > 0
        thrownLater == upserts /\ outcome["upsertEstimate"] = "thrown"
        results == << outcome["updateCompanySettings"] = "ok",
                      outcome["syncWarehouseItems"] # "thrown" >>
        attempted == { "updateCompanySettings", "syncWarehouseItems" }
                     \cup (IF upserts THEN { "upsertEstimate" } ELSE {})
    IN [success |-> ~rejected /\ ~thrownLater /\ results[1] /\ results[2],
        failed |-> { w \in attempted : outcome[w] # "ok" },
        store |->
          [ store EXCEPT
              !.openCellSets = IF outcome["updateCompanySettings"] = "ok"
                               THEN appData.warehouse.openCellSets ELSE @,
              !.closedCellSets = IF outcome["updateCompanySettings"] = "ok"
                                 THEN appData.warehouse.closedCellSets ELSE @,
              !.items = IF outcome["syncWarehouseItems"] = "ok"
                        THEN appData.warehouse.items ELSE @,
              !.estimates = IF upserts /\ outcome["upsertEstimate"] = "ok"
                            THEN UpsertRows(@, appData.savedEstimates) ELSE @ ]]

\* the auto-sync timer callback, its push settling with the given outcomes
autoSyncPush(outcome) ==
    /\ Tick
    /\ role # "crew"
    /\ Serialized # lastSynced
    /\ \E pushed \in { SaveFullAppStateResult(db, Serialized, outcome) } :
          /\ db' = pushed.store
          /\ lastSynced' = IF pushed.success THEN Serialized ELSE lastSynced
          /\ lastOp' = IF pushed.success THEN "autoSync" ELSE "autoSync:failed"
          /\ remoteCalls' = { "saveFullAppState" } \cup { Failed(w) : w \in pushed.failed }
    /\ UNCHANGED <<role, warehouse, savedEstimates, editingEstimateId, notification,
                   pendingSync, created, completion>>

\* handleManualSync, its push settling with the given outcomes
manualSyncPush(outcome) ==
    /\ Tick
    /\ \E pushed \in { SaveFullAppStateResult(db, Serialized, outcome) } :
          /\ db' = pushed.store
          /\ lastSynced' = IF pushed.success THEN Serialized ELSE lastSynced
          /\ notification' = IF pushed.success THEN "success" ELSE "error"
          /\ lastOp' = IF pushed.success THEN "handleManualSync"
                       ELSE "handleManualSync:failed"
          /\ remoteCalls' = { "saveFullAppState" } \cup { Failed(w) : w \in pushed.failed }
    /\ UNCHANGED <<role, warehouse, savedEstimates, editingEstimateId, pendingSync,
                   created, completion>>

PushNext ==
    \/ \E id \in 1..MaxEstimates : loadEstimateForEditing(id)
    \/ \E name \in CustomerNames, inventory \in JobInventories, results \in CalcResults,
          outcome \in Outcomes :
            saveEstimateRemote(name, inventory, results, "", outcome)
    \/ \E field \in { "openCellSets", "closedCellSets" }, step \in StockSteps :
            handleWarehouseStockChange(field, step)
    \/ \E outcome \in [Writes -> WriteOutcomes] : autoSyncPush(outcome)
    \/ \E outcome \in [Writes -> WriteOutcomes] : manualSyncPush(outcome)

PushSpec == Init /\ [][PushNext]_vars

\* C32: a push that its caller records as synced (lastSyncedStateRef set,
\* success reported) is one of which every write succeeded, so that the store
\* holds the local warehouse and every local estimate.
C32_SyncedOnlyIfEveryWriteSucceeded ==
    [][ lastOp' \in { "autoSync", "handleManualSync" }
        => /\ remoteCalls' = { "saveFullAppState" }
           /\ lastSynced' = [warehouse |-> warehouse', savedEstimates |-> savedEstimates']
           /\ db'.openCellSets = warehouse'.openCellSets
           /\ db'.items = warehouse'.items
           /\ \A i \in 1..Len(savedEstimates') :
                 FindEstimate(db'.estimates, savedEstimates'[i].id) = savedEstimates'[i]
      ]_vars

\* ------------------------------------------------------------------------
\* The realtime callbacks and stateRef (useRealtime.ts 74-78, 98-250): a
\* callback reads the appData of the last committed render, which the effect
\* of line 76 stores in stateRef after each render
\* ------------------------------------------------------------------------

RealtimeInit ==
    /\ role = "admin"
    /\ warehouse = InitialWarehouse
    /\ savedEstimates = TenantEstimates
    /\ editingEstimateId = 0
    /\ notification = "none"
    /\ lastSynced = [warehouse |-> InitialWarehouse, savedEstimates |-> TenantEstimates]
    /\ pendingSync = FALSE
    /\ db = [openCellSets |-> InitialWarehouse.openCellSets,
             closedCellSets |-> InitialWarehouse.closedCellSets,
             items |-> InitialWarehouse.items,
             estimates |-> TenantEstimates,
             materialLogs |-> {},
             profitLoss |-> << >>]
    /\ created = Len(TenantEstimates)
    /\ lastOp = "init"
    /\ remoteCalls = {}
    /\ completion = [ran |-> FALSE]
    /\ steps = 0
    /\ devices = [d \in Devices |->
                    [warehouse |-> InitialWarehouse,
                     savedEstimates |-> TenantEstimates,
                     editingEstimateId |-> 0,
                     stateRef |-> [warehouse |-> InitialWarehouse,
                                   savedEstimates |-> TenantEstimates]]]
    /\ inbox = [d \in Devices |-> << >>]
    /\ boot = Booted
    /\ debounce = Settled([warehouse |-> warehouse, savedEstimates |-> savedEstimates])
    /\ inflight = << >>

\* a callback of useRealtime: the payload it dispatches is computed from
\* current = stateRef.current, and UPDATE_DATA puts it over the appData
OnPostgresChanges(app, current, event) ==
    IF event.table = "companies"
    THEN IF \/ event.openCellSets # current.warehouse.openCellSets
            \/ event.closedCellSets # current.warehouse.closedCellSets
         THEN [ app EXCEPT !.warehouse =
                             [ current.warehouse EXCEPT
                                 !.openCellSets = event.openCellSets,
                                 !.closedCellSets = event.closedCellSets ] ]
         ELSE app
    ELSE CASE event.eventType = "INSERT" ->
                IF EstimateIndex(current.savedEstimates, event.row.id) = 0
                THEN [ app EXCEPT !.savedEstimates =
                                     Append(current.savedEstimates, event.row) ]
                ELSE app
           [] event.eventType = "UPDATE" ->
                [ app EXCEPT !.savedEstimates =
                    [ i \in 1..Len(current.savedEstimates) |->
                        IF current.savedEstimates[i].id = event.row.id THEN event.row
                        ELSE current.savedEstimates[i] ] ]
           [] OTHER ->
                [ app EXCEPT !.savedEstimates =
                                WithoutEstimate(current.savedEstimates, event.row.id) ]

\* the realtime channel hands a browser its next event; no render has to
\* have happened since the previous one
onPostgresChanges(d) ==
    /\ inbox[d] # << >>
    /\ devices' = [ devices EXCEPT
                      ![d] = OnPostgresChanges(@, @.stateRef, Head(inbox[d])) ]
    /\ inbox' = [ inbox EXCEPT ![d] = Tail(@) ]
    /\ lastOp' = "realtime"
    /\ remoteCalls' = {}
    /\ UNCHANGED <<role, warehouse, savedEstimates, editingEstimateId, notification,
                   lastSynced, pendingSync, db, created, completion, steps, boot, debounce,
                   inflight>>

\* the browser renders and the effect of line 76 refreshes stateRef
rerender(d) ==
    /\ devices[d].stateRef # [warehouse |-> devices[d].warehouse,
                              savedEstimates |-> devices[d].savedEstimates]
    /\ devices' = [ devices EXCEPT
                      ![d].stateRef = [warehouse |-> devices[d].warehouse,
                                       savedEstimates |-> devices[d].savedEstimates] ]
    /\ lastOp' = "render"
    /\ remoteCalls' = {}
    /\ UNCHANGED <<role, warehouse, savedEstimates, editingEstimateId, notification,
                   lastSynced, pendingSync, db, created, completion, steps, inbox, boot,
                   debounce, inflight>>

RealtimeNext ==
    \/ \E d \in Devices : onPostgresChanges(d)
    \/ \E d \in Devices : rerender(d)
    \/ \E d \in Devices, id \in 1..Len(TenantEstimates) : deviceLoadEstimateForEditing(d, id)
    \/ \E d \in Devices, results \in TenantResults : deviceSaveEstimate(d, results)
    \/ \E d \in Devices, id \in 1..Len(TenantEstimates) : deviceDeleteEstimate(d, id)

RealtimeSpec == RealtimeInit /\ [][RealtimeNext]_vars

\* no two records of a list have the same id
UniqueIds(estimates) ==
    \A i, j \in 1..Len(estimates) : estimates[i].id = estimates[j].id => i = j

\* C33: every realtime event a browser receives is applied to the list the
\* browser holds at that moment, whether or not it has rendered since the
\* previous event, so that the list has the effect of every event received;
\* and no browser's savedEstimates ever holds two records of one id.
C33_EveryEventIsReflected ==
    [][ lastOp' = "realtime"
        => \A d \in Devices :
              /\ inbox'[d] # inbox[d]
                    => /\ devices'[d].savedEstimates
                             = Received(devices[d], Head(inbox[d])).savedEstimates
                       /\ devices'[d].warehouse
                             = Received(devices[d], Head(inbox[d])).warehouse
              /\ UniqueIds(devices'[d].savedEstimates) ]_vars

\* no browser's savedEstimates holds two records of one id
C33_NoDuplicateIds == \A d \in Devices : UniqueIds(devices[d].savedEstimates)

\* the number of records of a list that have the id
Occurrences(estimates, id) ==
    Cardinality({ i \in 1..Len(estimates) : estimates[i].id = id })

\* C34: a confirmWorkOrder that saves leaves exactly one record of the job
\* in savedEstimates; all of its saveEstimate calls use one id (the id being
\* edited, or one new id for a job never saved before, also when the record
\* is saved again with workOrderSheetUrl); and the job's inventory items are
\* taken from the warehouse once (the difference from the record's previous
\* inventory, applied one time).
C34_OneRecordOneIdOneDeduction ==
    [][ lastOp' \in { "confirmWorkOrder:reserved", "confirmWorkOrder:resold" }
        => LET id == editingEstimateId'
               before == FindEstimate(savedEstimates, id)
               after == FindEstimate(savedEstimates', id)
           IN /\ Occurrences(savedEstimates', id) = 1
              /\ Len(savedEstimates') = Len(savedEstimates)
                                        + (IF editingEstimateId = 0 THEN 1 ELSE 0)
              /\ IF editingEstimateId = 0 THEN id = created + 1 /\ created' = created + 1
                 ELSE id = editingEstimateId /\ created' = created
              /\ warehouse'.items = ApplyDiffMap(warehouse.items,
                                                 before.materials.inventory,
                                                 after.materials.inventory) ]_vars

\* the same with one id for every save left out: one record, one deduction
C34_OneRecordOneDeduction ==
    [][ lastOp' \in { "confirmWorkOrder:reserved", "confirmWorkOrder:resold" }
        => LET id == editingEstimateId'
               before == FindEstimate(savedEstimates, id)
               after == FindEstimate(savedEstimates', id)
           IN /\ Occurrences(savedEstimates', id) = 1
              /\ Len(savedEstimates') = Len(savedEstimates)
                                        + (IF editingEstimateId = 0 THEN 1 ELSE 0)
              /\ warehouse'.items = ApplyDiffMap(warehouse.items,
                                                 before.materials.inventory,
                                                 after.materials.inventory) ]_vars

\* ------------------------------------------------------------------------
\* handleMarkPaid with its remote call pending (useEstimates.ts 290-322):
\* the handler maps over the savedEstimates of the render that created it
\* ------------------------------------------------------------------------

\* the handler runs up to its await: markEstimatePaid is given the appData
\* of the closure and writes the P&L row and the estimates row
deviceMarkPaidStarts(d, id) ==
    /\ steps < MaxSteps
    /\ steps' = steps + 1
    /\ EstimateIndex(devices[d].savedEstimates, id) > 0
    /\ \A i \in 1..Len(inflight) : inflight[i].device # d
    /\ \E paid \in { MarkEstimatePaid(db, FindEstimate(devices[d].savedEstimates, id),
                                      Costs) } :
          /\ db' = paid.store
          /\ inbox' = Broadcast(IF EstimateIndex(db.estimates, id) > 0
                                THEN << EstimateEvent("UPDATE", paid.paidRecord) >>
                                ELSE << >>)
          /\ inflight' = Append(inflight,
                                [device |-> d, id |-> id,
                                 savedEstimates |-> devices[d].savedEstimates,
                                 paidRecord |-> paid.paidRecord])
    /\ lastOp' = "handleMarkPaid:started"
    /\ remoteCalls' = { "insertProfitLoss", "updateEstimate" }
    /\ UNCHANGED <<role, warehouse, savedEstimates, editingEstimateId, notification,
                   lastSynced, pendingSync, created, completion, devices, boot, debounce>>

\* the await returns: appData.savedEstimates.map(...) of the closure is
\* dispatched
deviceMarkPaidResolves(i) ==
    /\ i \in 1..Len(inflight)
    /\ devices' = [ devices EXCEPT
                      ![inflight[i].device].savedEstimates =
                          [ k \in 1..Len(inflight[i].savedEstimates) |->
                              IF inflight[i].savedEstimates[k].id = inflight[i].id
                              THEN inflight[i].paidRecord
                              ELSE inflight[i].savedEstimates[k] ] ]
    /\ inflight' = [ k \in 1..(Len(inflight) - 1) |->
                       IF k < i THEN inflight[k] ELSE inflight[k + 1] ]
    /\ lastOp' = "handleMarkPaid"
    /\ remoteCalls' = {}
    /\ UNCHANGED <<role, warehouse, savedEstimates, editingEstimateId, notification,
                   lastSynced, pendingSync, db, created, completion, steps, inbox, boot,
                   debounce>>

PaidNext ==
    \/ \E d \in Devices : deliver(d)
    \/ \E d \in Devices, id \in 1..Len(TenantEstimates) : deviceLoadEstimateForEditing(d, id)
    \/ \E d \in Devices, results \in TenantResults : deviceSaveEstimate(d, results)
    \/ \E d \in Devices, id \in 1..Len(TenantEstimates) : deviceDeleteEstimate(d, id)
    \/ \E d \in Devices, id \in 1..Len(TenantEstimates) : deviceMarkPaidStarts(d, id)
    \/ \E i \in 1..Cardinality(Devices) : deviceMarkPaidResolves(i)

PaidSpec == TenantInit /\ [][PaidNext]_vars

\* C35: when handleMarkPaid completes, the browser's records other than the
\* target are what they were just before: whatever was added, deleted or
\* updated while the payment call was pending is still there.
C35_MarkPaidChangesOnlyTarget ==
    [][ lastOp' = "handleMarkPaid"
        => \A d \in Devices :
              \A id \in 1..Len(TenantEstimates) :
                 (\E i \in 1..Len(inflight) :
                     /\ inflight[i].device = d
                     /\ inflight[i].id = id
                     /\ Len(inflight') < Len(inflight)
                     /\ \A k \in 1..Len(inflight') : inflight'[k].device # d)
                 => WithoutEstimate(devices'[d].savedEstimates, id)
                      = WithoutEstimate(devices[d].savedEstimates, id) ]_vars

\* ------------------------------------------------------------------------
\* handleSaveAndMarkPaid (SprayFoamCalculator.tsx 128-141): saveEstimate and
\* handleMarkPaid of one render, in a Supabase session
\* ------------------------------------------------------------------------

\* the save's upsert is not awaited: it and the update of markEstimatePaid
\* reach the store in either order
ArrivalOrders == { "upsertFirst", "updateFirst" }

handleSaveAndMarkPaid(name, inventory, results, order) ==
    /\ Tick
    /\ role = "admin"
    /\ (editingEstimateId = 0 /\ name # "") => created < MaxEstimates
    /\ \E saved \in { SaveEstimate(App, created + 1, name, inventory, results,
                                   "Invoiced", NoExtra) } :
       \* handleMarkPaid looks the id up in the savedEstimates of its closure
       \E estimate \in { FindEstimate(savedEstimates, saved.record.id) } :
       \E paid \in { IF order = "upsertFirst"
                     THEN MarkEstimatePaid(PersistSave(db, saved), estimate, Costs)
                     ELSE MarkEstimatePaid(db, estimate, Costs) } :
          /\ (~saved.ok \/ estimate.id = 0) => order = "upsertFirst"
          /\ savedEstimates' =
                IF ~saved.ok THEN savedEstimates
                ELSE IF estimate.id = 0 THEN saved.savedEstimates
                ELSE [ savedEstimates EXCEPT
                         ![EstimateIndex(savedEstimates, estimate.id)] = paid.paidRecord ]
          /\ warehouse' = IF saved.warehouseUpdated THEN saved.newWarehouse ELSE warehouse
          /\ editingEstimateId' = IF saved.ok THEN saved.record.id ELSE editingEstimateId
          /\ notification' = IF saved.ok THEN "success" ELSE "error"
          /\ db' = IF ~saved.ok THEN db
                   ELSE IF estimate.id = 0 THEN PersistSave(db, saved)
                   ELSE IF order = "upsertFirst" THEN paid.store
                   ELSE PersistSave(paid.store, saved)
          /\ created' = IF saved.usedNewId THEN created + 1 ELSE created
          /\ lastOp' = IF saved.ok THEN "handleSaveAndMarkPaid"
                       ELSE "handleSaveAndMarkPaid:rejected"
          /\ remoteCalls' = IF ~saved.ok THEN {}
                            ELSE SaveCalls(saved)
                                 \cup (IF estimate.id = 0 THEN {}
                                       ELSE { "insertProfitLoss", "updateEstimate" })
    /\ UNCHANGED <<role, lastSynced, pendingSync, completion>>

InvoiceNext ==
    \/ \E id \in 1..MaxEstimates : loadEstimateForEditing(id)
    \/ \E name \in CustomerNames, inventory \in JobInventories, results \in CalcResults :
            saveEstimate(name, inventory, results, "")
    \/ \E name \in CustomerNames, inventory \in JobInventories, results \in CalcResults,
          order \in ArrivalOrders :
            handleSaveAndMarkPaid(name, inventory, results, order)

InvoiceSpec == Init /\ [][InvoiceNext]_vars

\* the record a save as Invoiced followed by a payment leaves: the saved
\* record, Paid, with the snapshot computed from it
PaidInvoice(name, inventory, results) ==
    LET saved == SaveEstimate(App, created + 1, name, inventory, results, "Invoiced",
                              NoExtra).record
    IN [ saved EXCEPT !.status = "Paid", !.financials = FinancialSnapshot(saved, Costs) ]

\* C36: a handleSaveAndMarkPaid that saves ends with the estimate Paid in
\* savedEstimates, its snapshot computed from the record just saved as
\* Invoiced, whether the estimate was in savedEstimates before or not; the
\* estimate is left Invoiced only with an error notification; and the store's
\* row ends Paid in both arrival orders of the upsert and the paid update.
C36_SaveAndMarkPaidEndsPaid ==
    [][ lastOp' = "handleSaveAndMarkPaid"
        => LET record == FindEstimate(savedEstimates', editingEstimateId')
               row == FindEstimate(db'.estimates, editingEstimateId')
           IN /\ \E name \in CustomerNames, inventory \in JobInventories,
                    results \in CalcResults :
                      record = PaidInvoice(name, inventory, results)
              /\ record.status = "Invoiced" => notification' = "error"
              /\ row.status = "Paid" ]_vars

\* the first part alone: Paid locally, or a failure is notified
C36_PaidOrNotified ==
    [][ lastOp' = "handleSaveAndMarkPaid"
        => \/ FindEstimate(savedEstimates', editingEstimateId').status = "Paid"
           \/ notification' = "error" ]_vars

\* the snapshot part alone, for an estimate that ends Paid
C36_SnapshotOfSavedRecord ==
    [][ (lastOp' = "handleSaveAndMarkPaid"
         /\ FindEstimate(savedEstimates', editingEstimateId').status = "Paid")
        => \E name \in CustomerNames, inventory \in JobInventories,
              results \in CalcResults :
                FindEstimate(savedEstimates', editingEstimateId')
                   = PaidInvoice(name, inventory, results) ]_vars

\* the store part alone, for an estimate that ends Paid
C36_RowEndsPaid ==
    [][ (lastOp' = "handleSaveAndMarkPaid"
         /\ FindEstimate(savedEstimates', editingEstimateId').status = "Paid")
        => FindEstimate(db'.estimates, editingEstimateId').status = "Paid" ]_vars

\* ------------------------------------------------------------------------
\* An admin browser deleting a Work Order (useEstimates.ts 203-278) and a
\* crew browser completing it (CrewDashboard handleCompleteJobSubmit,
\* database.ts 339-370), each on its own copy of the company's data
\* ------------------------------------------------------------------------

AdminDevice == CHOOSE d \in Devices : \A e \in Devices : d <= e

CrewDevice == CHOOSE d \in Devices : \A e \in Devices : e <= d

\* handleCompleteJobSubmit of the crew browser: the job is one its dashboard
\* lists, and completeJobInSupabase is given the materials of its copy of the
\* job and its copy of the warehouse
deviceCompleteJob(d, id, actuals) ==
    /\ ~completion.ran
    /\ EstimateIndex(devices[d].savedEstimates, id) > 0
    /\ IsOpenWorkOrder(FindEstimate(devices[d].savedEstimates, id))
    /\ \E selectedJob \in { FindEstimate(devices[d].savedEstimates, id) } :
       \E done \in { CompleteJobInSupabase(db, id, actuals, selectedJob.materials,
                                           devices[d].warehouse, "none") } :
          /\ db' = done.store
          /\ inbox' = Broadcast((IF EstimateIndex(db.estimates, id) > 0
                                 THEN << EstimateEvent("UPDATE",
                                                       FindEstimate(done.store.estimates, id)) >>
                                 ELSE << >>)
                                \o << CompanyEvent(done.store) >>)
          /\ remoteCalls' = done.calls
          /\ completion' = [ran |-> TRUE, id |-> id, failure |-> "none",
                            actuals |-> actuals, result |-> done.result]
    /\ lastOp' = "handleCompleteJobSubmit"
    /\ UNCHANGED <<role, warehouse, savedEstimates, editingEstimateId, notification,
                   lastSynced, pendingSync, created, steps, devices, boot, debounce,
                   inflight>>

ReleaseNext ==
    \/ \E d \in Devices : deliver(d)
    \/ \E id \in 1..Len(TenantEstimates) : deviceLoadEstimateForEditing(AdminDevice, id)
    \/ \E results \in TenantResults : deviceConfirmWorkOrder(AdminDevice, results)
    \/ \E id \in 1..Len(TenantEstimates) : deviceDeleteEstimate(AdminDevice, id)
    \/ \E id \in 1..Len(TenantEstimates), actuals \in CrewActuals :
            deviceCompleteJob(CrewDevice, id, actuals)

ReleaseSpec == TenantInit /\ [][ReleaseNext]_vars

\* the stock the store holds
Stock(store) ==
    [openCellSets |-> store.openCellSets, closedCellSets |-> store.closedCellSets,
     items |-> store.items]

\* C37: of release (the delete of an active Work Order) and reconcile (the
\* crew's completion) at most one is applied to the stock of one estimate:
\* a completion of an estimate whose row is gone, or is no longer an active
\* Work Order, leaves the stock as it is and reports failure, and a delete of
\* an estimate whose row is Completed leaves the stock as it is.
C37_ReleaseOrReconcile ==
    [][ /\ lastOp' = "handleCompleteJobSubmit"
            => LET row == FindEstimate(db.estimates, completion'.id)
               IN (row.id = 0 \/ ~IsOpenWorkOrder(row))
                     => /\ Stock(db') = Stock(db)
                        /\ ~completion'.result.success
        /\ lastOp' = "handleDeleteEstimate"
            => \A id \in 1..Len(TenantEstimates) :
                  (/\ EstimateIndex(db.estimates, id) > 0
                   /\ EstimateIndex(db'.estimates, id) = 0
                   /\ FindEstimate(db.estimates, id).executionStatus = "Completed")
                  => Stock(db') = Stock(db) ]_vars

\* the completion half alone
C37_LateCompletionFails ==
    [][ lastOp' = "handleCompleteJobSubmit"
        => LET row == FindEstimate(db.estimates, completion'.id)
           IN (row.id = 0 \/ ~IsOpenWorkOrder(row))
                 => /\ Stock(db') = Stock(db)
                    /\ ~completion'.result.success ]_vars

\* the delete half alone
C37_NoReleaseAfterCompletion ==
    [][ lastOp' = "handleDeleteEstimate"
        => \A id \in 1..Len(TenantEstimates) :
              (/\ EstimateIndex(db.estimates, id) > 0
               /\ EstimateIndex(db'.estimates, id) = 0
               /\ FindEstimate(db.estimates, id).executionStatus = "Completed")
              => Stock(db') = Stock(db) ]_vars

====
